---------------------------- MODULE Spec2Model ----------------------------
(***************************************************************************)
(* A model of the layered save-data files of save3ds.                      *)
(*                                                                         *)
(*   SpecFuzz, SpecDual   DualFile (dual_file.rs) over three MemoryFiles:  *)
(*                        a one-byte selector and the two copies.          *)
(*   SpecDiff             the DIFF container (diff.rs) over one leaf file, *)
(*                        with a commit that fails or is cut short.        *)
(*   SpecFormat           Diff::format then Diff::new, over the params.    *)
(*   SpecAll              SpecDual and SpecDiff side by side.              *)
(*   SpecLayout           the layout function of diff.rs and align_up.     *)
(*   SpecNew              DualFile::new over files of any lengths.         *)
(*   SpecSteps            DualFile::write taken one file write at a time.  *)
(*   SpecTamper, SpecIds  a leaf changed behind the back of the Diff.      *)
(*   SpecFuse             the request handlers of save3ds_fuse (main.rs).  *)
(*   SpecCalc             align_up and the inode mapping, as functions.    *)
(*                                                                         *)
(* A file is a sequence of cells; position p of the code is index p + 1.   *)
(***************************************************************************)
EXTENDS Integers, Sequences, FiniteSets, TLC

VARIABLES
    world,      \* which harness runs: "dual", "steps", "new", "diff",
                \* "format", "tamper", "layout", "fuse", "calc"
    selector,   \* DualFile world: content of the 1-byte selector file
    pair,       \* DualFile world: <<pair[0], pair[1]>>, the two copies
    modified,   \* DualFile.modified of the live instance
    plain,      \* the reference MemoryFile of the fuzz test
    hist,       \* what the last call was and what it returned
    param,      \* the DifiPartitionParam in use
    info,       \* layout world: what calculate_info and calculate_size gave;
                \* calc world: the arguments and the result of the last call
    signer,     \* diff world: the Option<(Signer, key)> given to format and new
    leaf,       \* diff world: the parent file, [tag, header, body]
    diff,       \* diff world: the live Diff instance and its layers
    pc,         \* diff world: where the harness and Diff::commit stand
    fs          \* fuse world: the SaveDataFilesystem, its save data and
                \* what the last request handler did

dualVars == <<selector, pair, modified, plain, hist>>

layoutVars == <<param, info>>

diffVars == <<signer, leaf, diff, pc>>

vars == <<world, selector, pair, modified, plain, hist, param, info,
          signer, leaf, diff, pc, fs>>

----------------------------------------------------------------------------
(* Bounds *)

\* greatest length of the two copies of the DualFile under test
MaxLen == 3

\* the count of writes of a session saturates here
MaxWrites == 2

\* greatest data_len of a DifiPartitionParam of the layout world
MaxDataLen == 12

\* block lengths are 2^0 .. 2^MaxBlockLog
MaxBlockLog == 4

\* data_len of the partitions of the diff world
DiffDataLen == 2

\* block lengths of the diff world are 2^0 .. 2^DiffBlockLog
DiffBlockLog == 1

\* the longest data of the format world
FormatDataLen == 4

\* a data cell holds one of two values: enough to tell two copies, or a
\* copy and a buffer, apart at any position
Byte == {0, 1}

\* the record of the harness before any call
NoCall == [op |-> "new", out |-> <<>>, ref |-> <<>>, err |-> "Ok",
           nwrites |-> 0, ended |-> 0, snap |-> <<>>]

\* no SaveDataFilesystem: the value fs holds in the other worlds
NoFs == [read_only |-> FALSE, save |-> [file |-> <<>>, dir |-> {}],
         fh_map |-> <<>>, next_fh |-> 1,
         req |-> "none", calls |-> <<>>, reply |-> <<>>, out |-> <<>>,
         served |-> 0, arg |-> <<>>, win |-> <<>>,
         mounted |-> FALSE, commits |-> 0]

----------------------------------------------------------------------------
(* MemoryFile: positioned read and write on a sequence *)

FileRead(f, pos, n) == SubSeq(f, pos + 1, pos + n)

FileWrite(f, pos, buf) ==
    [i \in 1..Len(f) |->
        IF pos < i /\ i <= pos + Len(buf) THEN buf[i - pos] ELSE f[i]]

\* all buffers of length n over S
RECURSIVE Bufs(_, _)
Bufs(S, n) ==
    IF n = 0 THEN {<<>>}
    ELSE {Append(b, x) : b \in Bufs(S, n - 1), x \in S}

\* bitwise exclusive or of two naturals
RECURSIVE Xor(_, _)
Xor(a, b) ==
    IF a = 0 /\ b = 0 THEN 0
    ELSE (((a % 2) + (b % 2)) % 2) + 2 * Xor(a \div 2, b \div 2)

----------------------------------------------------------------------------
(* DualFile, as functions of (selector byte, pair, modified).  A copy is   *)
(* addressed as in the code: pair[k] of the code is P[k + 1] here.         *)

DualLen(P) == Len(P[1])

\* a DualFile::new that does not look at the selector
DualNewPairOnly(selLen, P) ==
    IF Len(P[2]) # Len(P[1]) THEN [err |-> "SizeMismatch"]
    ELSE [err |-> "Ok", modified |-> 0, len |-> Len(P[1])]

\* DualFile::new: the two copies have one length and the selector is 1 byte
DualNew(selLen, P) ==
    IF Len(P[2]) # Len(P[1]) THEN [err |-> "SizeMismatch"]
    ELSE IF selLen # 1 THEN [err |-> "SizeMismatch"]
    ELSE [err |-> "Ok", modified |-> 0, len |-> Len(P[1])]

\* a read that forgets the session: it follows the selector alone
DualReadNoXor(sel, P, m, pos, n) ==
    IF pos + n > DualLen(P) THEN [err |-> "OutOfBound", data |-> <<>>]
    ELSE [err |-> "Ok", data |-> FileRead(P[sel + 1], pos, n)]

\* DualFile::read
DualRead(sel, P, m, pos, n) ==
    IF pos + n > DualLen(P) THEN [err |-> "OutOfBound", data |-> <<>>]
    ELSE LET select == Xor(sel, m)
         IN  [err |-> "Ok", data |-> FileRead(P[select + 1], pos, n)]

\* a write that refuses the request that ends at the end of the file
DualWriteStrict(sel, P, m, pos, buf) ==
    LET end  == pos + Len(buf)
        len  == DualLen(P)
        prev == sel
        cur  == 1 - prev
        P1   == [P EXCEPT ![cur + 1] = FileWrite(@, pos, buf)]
        P2   == IF pos # 0
                THEN [P1 EXCEPT ![cur + 1] =
                        FileWrite(@, 0, FileRead(P1[prev + 1], 0, pos))]
                ELSE P1
    IN  IF end >= len THEN [err |-> "OutOfBound", pair |-> P, modified |-> m]
        ELSE IF m = 0 THEN [err |-> "Ok", modified |-> 1, pair |->
                 [P2 EXCEPT ![cur + 1] =
                    FileWrite(@, end, FileRead(P2[prev + 1], end, len - end))]]
        ELSE [err |-> "Ok", pair |-> P1, modified |-> m]

\* a write that takes the active copy as its target (cur = prev)
DualWriteActive(sel, P, m, pos, buf) ==
    IF pos + Len(buf) > DualLen(P)
    THEN [err |-> "OutOfBound", pair |-> P, modified |-> m]
    ELSE [err |-> "Ok", pair |-> [P EXCEPT ![sel + 1] = FileWrite(@, pos, buf)],
          modified |-> 1]

\* a write that sets the flag inside the suffix branch only
DualWriteFlagInEdge(sel, P, m, pos, buf) ==
    LET end == pos + Len(buf)
        len == DualLen(P)
        cur == 1 - sel
        P1  == [P EXCEPT ![cur + 1] = FileWrite(@, pos, buf)]
        P2  == IF pos # 0
               THEN [P1 EXCEPT ![cur + 1] =
                       FileWrite(@, 0, FileRead(P1[sel + 1], 0, pos))]
               ELSE P1
        P3  == IF end # len
               THEN [P2 EXCEPT ![cur + 1] =
                       FileWrite(@, end, FileRead(P2[sel + 1], end, len - end))]
               ELSE P2
    IN  IF end > len THEN [err |-> "OutOfBound", pair |-> P, modified |-> m]
        ELSE IF m = 0
             THEN [err |-> "Ok", pair |-> P3,
                   modified |-> IF end # len THEN 1 ELSE m]
        ELSE [err |-> "Ok", pair |-> P1, modified |-> m]

\* DualFile::write, first the new bytes, then the two edges on the first
\* write of a session
DualWrite(sel, P, m, pos, buf) ==
    LET end  == pos + Len(buf)
        len  == DualLen(P)
        prev == sel
        cur  == 1 - prev
        P1   == [P EXCEPT ![cur + 1] = FileWrite(@, pos, buf)]
        P2   == IF pos # 0
                THEN [P1 EXCEPT ![cur + 1] =
                        FileWrite(@, 0, FileRead(P1[prev + 1], 0, pos))]
                ELSE P1
        P3   == IF end # len
                THEN [P2 EXCEPT ![cur + 1] =
                        FileWrite(@, end, FileRead(P2[prev + 1], end, len - end))]
                ELSE P2
    IN  IF end > len THEN [err |-> "OutOfBound", pair |-> P, modified |-> m]
        ELSE IF m = 0 THEN [err |-> "Ok", pair |-> P3, modified |-> 1]
        ELSE [err |-> "Ok", pair |-> P1, modified |-> m]

\* a write that copies the two edges first and writes the new bytes last
DualWriteStepsMirrorFirst(sel, P, m, pos, buf) ==
    LET end  == pos + Len(buf)
        len  == DualLen(P)
        prev == sel
        new  == <<[part |-> "new", pos |-> pos, buf |-> buf]>>
        pre  == IF m = 0 /\ pos # 0
                THEN <<[part |-> "prefix", pos |-> 0,
                        buf |-> FileRead(P[prev + 1], 0, pos)]>>
                ELSE <<>>
        suf  == IF m = 0 /\ end # len
                THEN <<[part |-> "suffix", pos |-> end,
                        buf |-> FileRead(P[prev + 1], end, len - end)]>>
                ELSE <<>>
    IN  IF end > len THEN <<>> ELSE pre \o suf \o new

\* a write that never copies an edge
DualWriteStepsNoMirror(sel, P, m, pos, buf) ==
    IF pos + Len(buf) > DualLen(P) THEN <<>>
    ELSE <<[part |-> "new", pos |-> pos, buf |-> buf]>>

\* DualFile::write as the writes it makes to pair[cur], in the order it
\* makes them; none when the request is out of bounds
DualWriteSteps(sel, P, m, pos, buf) ==
    LET end  == pos + Len(buf)
        len  == DualLen(P)
        prev == sel
        new  == <<[part |-> "new", pos |-> pos, buf |-> buf]>>
        pre  == IF m = 0 /\ pos # 0
                THEN <<[part |-> "prefix", pos |-> 0,
                        buf |-> FileRead(P[prev + 1], 0, pos)]>>
                ELSE <<>>
        suf  == IF m = 0 /\ end # len
                THEN <<[part |-> "suffix", pos |-> end,
                        buf |-> FileRead(P[prev + 1], end, len - end)]>>
                ELSE <<>>
    IN  IF end > len THEN <<>> ELSE new \o pre \o suf

\* a commit that flips the selector and leaves the flag set
DualCommitKeepFlag(sel, m) ==
    IF m = 1 THEN [err |-> "Ok", selector |-> 1 - sel, modified |-> m]
    ELSE [err |-> "Ok", selector |-> sel, modified |-> m]

\* DualFile::commit
DualCommit(sel, m) ==
    IF m = 1 THEN [err |-> "Ok", selector |-> 1 - sel, modified |-> 0]
    ELSE [err |-> "Ok", selector |-> sel, modified |-> m]

\* what the instance shows: every in-bounds read comes from this copy
DualView(sel, P, m) == DualRead(sel, P, m, 0, DualLen(P)).data

----------------------------------------------------------------------------
(* misc.rs *)

\* align_up
AlignUp(value, align) == value + ((align - (value % align)) % align)

\* divide_up
DivideUp(value, align) == IF value = 0 THEN 0 ELSE 1 + ((value - 1) \div align)

----------------------------------------------------------------------------
(* DifiPartitionParam and the layout of a DIFF container.  The partition   *)
(* is modelled with one dual-copy level and one hash level: the fields of  *)
(* DifiPartitionParam kept are the two block lengths that decide the       *)
(* alignment, and data_len.                                                *)

RECURSIVE Pow2(_)
Pow2(k) == IF k = 0 THEN 1 ELSE 2 * Pow2(k - 1)

NoParam == [data_len |-> 0, dpfs_level3_block_len |-> 1,
            ivfc_level4_block_len |-> 1]

ZeroInfo == [secondary_table_offset |-> 0, primary_table_offset |-> 0,
             table_len |-> 0, partition_offset |-> 0, partition_len |-> 0,
             end |-> 0]

NoInfo == [op |-> "none", v |-> ZeroInfo, end |-> 0]

Max(a, b) == IF a > b THEN a ELSE b

\* DifiPartitionParam::get_align
GetAlign(p) == Max(p.dpfs_level3_block_len, p.ivfc_level4_block_len)

\* number of hash blocks of the data
BlockCount(p) == DivideUp(p.data_len, p.ivfc_level4_block_len)

\* DifiPartition::calculate_size: (descriptor_len, partition_len).  The
\* descriptor holds the selector of the dual-copy level and one hash per
\* data block; the partition holds the two copies of the data.
DifiCalculateSize(p) == <<1 + BlockCount(p), 2 * p.data_len>>

secondary_table_offset == 512

\* calculate_info with the primary table aligned like the partition
CalculateInfoOneAlign(p) ==
    LET table_len == DifiCalculateSize(p)[1]
        primary   == AlignUp(secondary_table_offset + table_len, GetAlign(p))
        partoff   == AlignUp(primary + table_len, GetAlign(p))
    IN  [secondary_table_offset |-> secondary_table_offset,
         primary_table_offset |-> primary,
         table_len |-> table_len,
         partition_offset |-> partoff,
         partition_len |-> DifiCalculateSize(p)[2],
         end |-> partoff + DifiCalculateSize(p)[2]]

\* Diff::calculate_info
CalculateInfo(p) ==
    LET descriptor_len  == DifiCalculateSize(p)[1]
        partition_len   == DifiCalculateSize(p)[2]
        partition_align == GetAlign(p)
        table_len       == descriptor_len
        primary_table_offset ==
            AlignUp(secondary_table_offset + table_len, 8)
        partition_offset ==
            AlignUp(primary_table_offset + table_len, partition_align)
        end == partition_offset + partition_len
    IN  [secondary_table_offset |-> secondary_table_offset,
         primary_table_offset |-> primary_table_offset,
         table_len |-> table_len,
         partition_offset |-> partition_offset,
         partition_len |-> partition_len,
         end |-> end]

\* Diff::calculate_size
CalculateSize(p) == CalculateInfo(p).end

----------------------------------------------------------------------------
(* The leaf of a DIFF container.  Bytes [0, 0x10) are the tag, bytes       *)
(* [0x100, 0x200) the header, kept by field; body is the rest of the file, *)
(* cell by cell, so body[i] is the byte at offset 0x200 + i - 1.           *)

\* the low byte of v, then zeros
ToLETruncated(v, n) == IF n = 0 THEN <<>> ELSE <<v % 256>> \o [i \in 1..n - 1 |-> 0]

\* little-endian bytes of v, n of them (byte_struct_le)
RECURSIVE ToLE(_, _)
ToLE(v, n) == IF n = 0 THEN <<>> ELSE <<v % 256>> \o ToLE(v \div 256, n - 1)

\* the value of little-endian bytes
RECURSIVE FromLE(_)
FromLE(b) == IF b = <<>> THEN 0 ELSE b[1] + 256 * FromLE(Tail(b))

\* SHA-256 taken as collision-free.  The hash of a block of data is a
\* number, to fit a cell of the descriptor: the block read as a numeral of
\* base ByteBase with digits from 1, plus 1, so no block hashes to ZeroHash.
ByteBase == 3

RECURSIVE Numeral(_, _)
Numeral(b, base) ==
    IF b = <<>> THEN 0 ELSE (b[1] + 1) + base * Numeral(Tail(b), base)

Sha(b) == 1 + Numeral(b, ByteBase)

ZeroHash == 0

\* The hash of the descriptor, kept in the header and never in a cell, is
\* the descriptor itself, marked; 32 zero bytes are NoTableHash.
TableSha(t) == <<t>>

NoTableHash == <<>>

\* [0; n]
Zeros(n) == [i \in 1..n |-> 0]

\* the header region after file.write(0, &[0; 0x200]): the fields of
\* DiffHeader, and the bytes of the region after them as one number (rest),
\* 0 when all of them are zero
ZeroHeader ==
    [magic |-> Zeros(4), version |-> Zeros(4),
     secondary_table_offset |-> Zeros(8), primary_table_offset |-> Zeros(8),
     table_size |-> Zeros(8), partition_offset |-> Zeros(8),
     partition_size |-> Zeros(8), active_table |-> 0, padding |-> Zeros(3),
     sha |-> NoTableHash, unique_id |-> Zeros(8), rest |-> 0]

\* the tag region when zero
ZeroTag == [set |-> FALSE, key |-> 0, body |-> ZeroHeader]

\* Signer::hash of the header region, taken as collision-free and never zero
Mac(key, body) == [set |-> TRUE, key |-> key, body |-> body]

NoSigner == [some |-> FALSE, key |-> 0]

HeaderEnd == 512

\* a leaf of no bytes after the header
NoLeaf == [tag |-> ZeroTag, header |-> ZeroHeader, body |-> <<>>]

\* the harness before Diff::format
NoPc == [phase |-> "blank", step |-> 0, calls |-> <<>>, result |-> "none"]

\* SubFile::new(file, off, n): the window has to lie in the parent
SubFileOk(parent_len, off, n) == off + n <= parent_len

\* read of the leaf through SubFile(file, off, _), off >= 0x200
BodyRead(lf, off, n) == FileRead(lf.body, off - HeaderEnd, n)

\* write to the leaf through SubFile(file, off, _), off >= 0x200
BodyWrite(lf, off, buf) == [lf EXCEPT !.body = FileWrite(@, off - HeaderEnd, buf)]

\* a write to a header field through header_file: a SignedFile notes it
HeaderDirty(d) ==
    [d EXCEPT !.header_file.dirty = IF d.header_file.signed THEN 1 ELSE @]

----------------------------------------------------------------------------
(* table_upper: the DualFile of diff.rs over the selector at header 0x30   *)
(* and the pair [primary table, secondary table].  S is [leaf, diff].      *)

\* the pair built the other way round: [secondary, primary]
TableOffsetSwapped(d, k) ==
    IF k = 0 THEN d.secondary_table_offset ELSE d.primary_table_offset

\* offset of pair[k] of table_upper
TableOffset(d, k) ==
    IF k = 0 THEN d.primary_table_offset ELSE d.secondary_table_offset

TablePair(S) ==
    <<BodyRead(S.leaf, TableOffset(S.diff, 0), S.diff.table_size),
      BodyRead(S.leaf, TableOffset(S.diff, 1), S.diff.table_size)>>

TU_Read(S, pos, n) ==
    DualRead(S.leaf.header.active_table, TablePair(S),
             S.diff.table_upper.modified, pos, n)

TU_Write(S, pos, buf) ==
    LET sel == S.leaf.header.active_table
        r   == DualWrite(sel, TablePair(S), S.diff.table_upper.modified,
                         pos, buf)
    IN  [err |-> r.err,
         S |-> IF r.err # "Ok" THEN S
               ELSE [leaf |-> BodyWrite(BodyWrite(S.leaf,
                                  TableOffset(S.diff, 0), r.pair[1]),
                                  TableOffset(S.diff, 1), r.pair[2]),
                     diff |-> [S.diff EXCEPT
                                 !.table_upper.modified = r.modified]]]

TU_Commit(S) ==
    LET m == S.diff.table_upper.modified
        r == DualCommit(S.leaf.header.active_table, m)
    IN  IF m = 1
        THEN [leaf |-> [S.leaf EXCEPT !.header.active_table = r.selector],
              diff |-> [HeaderDirty(S.diff) EXCEPT
                          !.table_upper.modified = r.modified]]
        ELSE S

----------------------------------------------------------------------------
(* table_lower: an IvfcLevel of one block over table_upper, its hash store *)
(* the field at header 0x34.  A block written in this session is checked   *)
(* against the hash kept in memory, any other against the hash store.      *)

TL_Expect(S) ==
    IF S.diff.table_lower.dirty # NoTableHash THEN S.diff.table_lower.dirty
    ELSE S.leaf.header.sha

TL_Read(S, pos, n) ==
    LET blk == TU_Read(S, 0, S.diff.table_size)
    IN  IF pos + n > S.diff.table_size THEN [err |-> "OutOfBound", data |-> <<>>]
        ELSE IF blk.err # "Ok" THEN [err |-> blk.err, data |-> <<>>]
        ELSE IF TableSha(blk.data) # TL_Expect(S)
             THEN [err |-> "HashMismatch", data |-> <<>>]
        ELSE [err |-> "Ok", data |-> FileRead(blk.data, pos, n)]

TL_Write(S, pos, buf) ==
    LET blk == TU_Read(S, 0, S.diff.table_size)
        nb  == FileWrite(blk.data, pos, buf)
        w   == TU_Write(S, 0, nb)
    IN  IF pos + Len(buf) > S.diff.table_size THEN [err |-> "OutOfBound", S |-> S]
        ELSE IF w.err # "Ok" THEN [err |-> w.err, S |-> S]
        ELSE [err |-> "Ok",
              S |-> [w.S EXCEPT !.diff.table_lower.dirty = TableSha(nb)]]

TL_Commit(S) ==
    IF S.diff.table_lower.dirty # NoTableHash
    THEN [leaf |-> [S.leaf EXCEPT !.header.sha = S.diff.table_lower.dirty],
          diff |-> [HeaderDirty(S.diff) EXCEPT
                      !.table_lower.dirty = NoTableHash]]
    ELSE S

----------------------------------------------------------------------------
(* partition: the DifiPartition, one dual-copy level (a DualFile whose     *)
(* selector is cell 0 of the descriptor and whose two copies fill the      *)
(* partition window) under one hash level (an IvfcLevel whose hash store   *)
(* is cells 1.. of the descriptor).  The descriptor is table_lower.        *)

DataLen(S) == S.diff.partition.data_len

DP_Pair(S) ==
    <<BodyRead(S.leaf, S.diff.partition_offset, DataLen(S)),
      BodyRead(S.leaf, S.diff.partition_offset + DataLen(S), DataLen(S))>>

DP_Read(S, pos, n) ==
    LET sel == TL_Read(S, 0, 1)
    IN  IF sel.err # "Ok" THEN [err |-> sel.err, data |-> <<>>]
        ELSE DualRead(sel.data[1], DP_Pair(S), S.diff.partition.dpfs_modified,
                      pos, n)

DP_Write(S, pos, buf) ==
    LET sel == TL_Read(S, 0, 1)
        r   == DualWrite(sel.data[1], DP_Pair(S),
                         S.diff.partition.dpfs_modified, pos, buf)
    IN  IF sel.err # "Ok" THEN [err |-> sel.err, S |-> S]
        ELSE IF r.err # "Ok" THEN [err |-> r.err, S |-> S]
        ELSE [err |-> "Ok",
              S |-> [leaf |-> BodyWrite(BodyWrite(S.leaf,
                                 S.diff.partition_offset, r.pair[1]),
                                 S.diff.partition_offset + DataLen(S),
                                 r.pair[2]),
                     diff |-> [S.diff EXCEPT
                                 !.partition.dpfs_modified = r.modified]]]

DP_Commit(S) ==
    LET sel == TL_Read(S, 0, 1)
        m   == S.diff.partition.dpfs_modified
        r   == DualCommit(sel.data[1], m)
        w   == TL_Write(S, 0, <<r.selector>>)
    IN  IF m # 1 THEN [err |-> "Ok", S |-> S]
        ELSE IF sel.err # "Ok" THEN [err |-> sel.err, S |-> S]
        ELSE IF w.err # "Ok" THEN [err |-> w.err, S |-> S]
        ELSE [err |-> "Ok",
              S |-> [w.S EXCEPT !.diff.partition.dpfs_modified = r.modified]]

BlockLen(S) == S.diff.partition.block_len

\* a minimum that takes its first argument
MinLeft(a, b) == a

Min(a, b) == IF a < b THEN a ELSE b

\* the cells of block b, and the block as it is hashed: padded with zeros
BlockSpan(S, b) == Min(BlockLen(S), DataLen(S) - b * BlockLen(S))

Padded(blk, n) == blk \o Zeros(n - Len(blk))

IV_Expect(S, b) ==
    IF S.diff.partition.ivfc_dirty[b + 1] # ZeroHash
    THEN [err |-> "Ok", data |-> <<S.diff.partition.ivfc_dirty[b + 1]>>]
    ELSE TL_Read(S, 1 + b, 1)

\* a block taken as read, whatever its hash
IV_BlockOkUnverified(S, b) ==
    LET blk == DP_Read(S, b * BlockLen(S), BlockSpan(S, b))
        e   == IV_Expect(S, b)
    IN  IF blk.err # "Ok" THEN blk.err
        ELSE IF e.err # "Ok" THEN e.err
        ELSE "Ok"

IV_BlockOk(S, b) ==
    LET blk == DP_Read(S, b * BlockLen(S), BlockSpan(S, b))
        e   == IV_Expect(S, b)
    IN  IF blk.err # "Ok" THEN blk.err
        ELSE IF e.err # "Ok" THEN e.err
        ELSE IF Sha(Padded(blk.data, BlockLen(S))) # e.data[1] THEN "HashMismatch"
        ELSE "Ok"

\* IvfcLevel::read of the data: every block touched is verified
IV_Read(S, pos, n) ==
    LET first == pos \div BlockLen(S)
        last  == (pos + n - 1) \div BlockLen(S)
        bad   == {b \in first..last : IV_BlockOk(S, b) # "Ok"}
        low   == CHOOSE b \in bad : \A c \in bad : b <= c
    IN  IF pos + n > DataLen(S) THEN [err |-> "OutOfBound", data |-> <<>>]
        ELSE IF bad # {} THEN [err |-> IV_BlockOk(S, low), data |-> <<>>]
        ELSE DP_Read(S, pos, n)

\* IvfcLevel::write of the data, block by block from block b on: the block
\* is read, overlaid, written through, and its hash kept in memory
RECURSIVE IV_WriteFrom(_, _, _, _)
IV_WriteFrom(S, pos, buf, b) ==
    LET start == b * BlockLen(S)
        old   == DP_Read(S, start, BlockSpan(S, b))
        nb    == [i \in 1..BlockSpan(S, b) |->
                    IF pos < start + i /\ start + i <= pos + Len(buf)
                    THEN buf[start + i - pos] ELSE old.data[i]]
        w     == DP_Write(S, start, nb)
        S1    == [w.S EXCEPT !.diff.partition.ivfc_dirty[b + 1] =
                                Sha(Padded(nb, BlockLen(S)))]
    IN  IF start >= pos + Len(buf) THEN [err |-> "Ok", S |-> S]
        ELSE IF old.err # "Ok" THEN [err |-> old.err, S |-> S]
        ELSE IF w.err # "Ok" THEN [err |-> w.err, S |-> S]
        ELSE IV_WriteFrom(S1, pos, buf, b + 1)

IV_Write(S, pos, buf) ==
    IF pos + Len(buf) > DataLen(S) THEN [err |-> "OutOfBound", S |-> S]
    ELSE IV_WriteFrom(S, pos, buf, pos \div BlockLen(S))

\* the blocks whose hash waits in memory
IV_Dirty(S) ==
    {b \in 0..Len(S.diff.partition.ivfc_dirty) - 1 :
        S.diff.partition.ivfc_dirty[b + 1] # ZeroHash}

\* IvfcLevel::commit, one hash: the lowest waiting hash goes to the store
IV_FlushOne(S) ==
    LET b == CHOOSE x \in IV_Dirty(S) : \A y \in IV_Dirty(S) : x <= y
        w == TL_Write(S, 1 + b, <<S.diff.partition.ivfc_dirty[b + 1]>>)
    IN  IF w.err # "Ok" THEN [err |-> w.err, S |-> S]
        ELSE [err |-> "Ok",
              S |-> [w.S EXCEPT !.diff.partition.ivfc_dirty[b + 1] = ZeroHash]]

\* something of DifiPartition::commit is still to do
PartitionPending(S) ==
    IV_Dirty(S) # {} \/ S.diff.partition.dpfs_modified = 1

\* DifiPartition::commit, one write to the descriptor: the hashes first,
\* then the swap of the dual-copy level
PartitionCommitOne(S) ==
    IF IV_Dirty(S) # {} THEN IV_FlushOne(S) ELSE DP_Commit(S)

\* DifiPartition::commit
RECURSIVE PartitionCommit(_)
PartitionCommit(S) ==
    IF ~PartitionPending(S) THEN [err |-> "Ok", S |-> S]
    ELSE LET r == PartitionCommitOne(S)
         IN  IF r.err # "Ok" THEN r ELSE PartitionCommit(r.S)

----------------------------------------------------------------------------
(* Diff: format, new, commit *)

Magic == <<68, 73, 70, 70>>

Version == 196608

NoDiff ==
    [open |-> FALSE, parent_len |-> 0, unique_id |-> 0,
     primary_table_offset |-> 0, secondary_table_offset |-> 0,
     table_size |-> 0, partition_offset |-> 0, partition_size |-> 0,
     header_file |-> [signed |-> FALSE, key |-> 0, dirty |-> 0],
     table_upper |-> [modified |-> 0],
     table_lower |-> [dirty |-> NoTableHash],
     partition |-> [data_len |-> 0, block_len |-> 1, ivfc_dirty |-> <<>>,
                    dpfs_modified |-> 0]]

\* file.len()
LeafLen(lf) == HeaderEnd + Len(lf.body)

\* DifiPartition::format: the descriptor of a partition of zeros, with the
\* selector of the dual-copy level at 0
DifiFormat(p) ==
    <<0>> \o [b \in 1..BlockCount(p) |-> Sha(Zeros(p.ivfc_level4_block_len))]

\* a format that leaves active_table at 0
DiffFormatPrimary(lf, sg, p, uid) ==
    LET inf  == CalculateInfo(p)
        desc == DifiFormat(p)
        h == [magic |-> Magic, version |-> ToLE(Version, 4),
              secondary_table_offset |-> ToLE(inf.secondary_table_offset, 8),
              primary_table_offset |-> ToLE(inf.primary_table_offset, 8),
              table_size |-> ToLE(inf.table_len, 8),
              partition_offset |-> ToLE(inf.partition_offset, 8),
              partition_size |-> ToLE(inf.partition_len, 8),
              active_table |-> 0, padding |-> Zeros(3),
              sha |-> TableSha(desc), unique_id |-> ToLE(uid, 8),
              rest |-> 0]
    IN  [err |-> "Ok",
         leaf |-> [BodyWrite(lf, inf.secondary_table_offset, desc) EXCEPT
                     !.header = h,
                     !.tag = IF sg.some THEN Mac(sg.key, h) ELSE ZeroTag]]

\* Diff::format
DiffFormat(lf, sg, p, uid) ==
    LET inf  == CalculateInfo(p)
        h0 == [magic |-> Magic, version |-> ToLE(Version, 4),
               secondary_table_offset |-> ToLE(inf.secondary_table_offset, 8),
               primary_table_offset |-> ToLE(inf.primary_table_offset, 8),
               table_size |-> ToLE(inf.table_len, 8),
               partition_offset |-> ToLE(inf.partition_offset, 8),
               partition_size |-> ToLE(inf.partition_len, 8),
               active_table |-> 1, padding |-> Zeros(3),
               sha |-> NoTableHash, unique_id |-> ToLE(uid, 8),
               rest |-> 0]
        desc == DifiFormat(p)
        \* DifiPartition::format(table): the block goes to the secondary
        \* table; table.commit(): its hash goes to the header
        lf1  == BodyWrite(lf, inf.secondary_table_offset, desc)
        h1   == [h0 EXCEPT !.sha = TableSha(desc)]
        \* header_file.commit()
        tag  == IF sg.some THEN Mac(sg.key, h1) ELSE ZeroTag
    IN  IF ~SubFileOk(LeafLen(lf), 0, HeaderEnd)
        THEN [err |-> "OutOfBound", leaf |-> lf]
        ELSE IF ~SubFileOk(LeafLen(lf), inf.secondary_table_offset, inf.table_len)
        THEN [err |-> "OutOfBound",
              leaf |-> [lf EXCEPT !.header = h0, !.tag = ZeroTag]]
        ELSE [err |-> "Ok", leaf |-> [lf1 EXCEPT !.header = h1, !.tag = tag]]

\* a Diff::new that looks at magic and version before the signature
DiffNewMagicFirst(lf, sg, p) ==
    LET h  == lf.header
        d  == [NoDiff EXCEPT
                 !.open = TRUE,
                 !.parent_len = LeafLen(lf),
                 !.unique_id = FromLE(h.unique_id),
                 !.primary_table_offset = FromLE(h.primary_table_offset),
                 !.secondary_table_offset = FromLE(h.secondary_table_offset),
                 !.table_size = FromLE(h.table_size),
                 !.partition_offset = FromLE(h.partition_offset),
                 !.partition_size = FromLE(h.partition_size),
                 !.header_file = [signed |-> sg.some, key |-> sg.key,
                                  dirty |-> 0],
                 !.table_upper = [modified |->
                     DualNew(1, <<Zeros(FromLE(h.table_size)),
                                  Zeros(FromLE(h.table_size))>>).modified],
                 !.partition = [data_len |-> p.data_len,
                                block_len |-> p.ivfc_level4_block_len,
                                ivfc_dirty |-> Zeros(BlockCount(p)),
                                dpfs_modified |-> 0]]
        len == LeafLen(lf)
        fail(e) == [err |-> e, diff |-> NoDiff]
    IN  IF ~SubFileOk(len, 256, 256) THEN fail("OutOfBound")
        ELSE IF sg.some /\ ~SubFileOk(len, 0, 16) THEN fail("OutOfBound")
        ELSE IF h.magic # Magic \/ FromLE(h.version) # Version
             THEN fail("MagicMismatch")
        ELSE IF sg.some /\ Mac(sg.key, h) # lf.tag THEN fail("SignatureMismatch")
        ELSE IF ~SubFileOk(len, d.primary_table_offset, d.table_size)
             THEN fail("OutOfBound")
        ELSE IF ~SubFileOk(len, d.secondary_table_offset, d.table_size)
             THEN fail("OutOfBound")
        ELSE IF d.table_size = 0 THEN fail("SizeMismatch")
        ELSE IF ~SubFileOk(len, d.partition_offset, d.partition_size)
             THEN fail("OutOfBound")
        ELSE IF d.table_size # DifiCalculateSize(p)[1]
                \/ d.partition_size # DifiCalculateSize(p)[2]
             THEN fail("SizeMismatch")
        ELSE IF TL_Read([leaf |-> lf, diff |-> d], 0, d.table_size).err # "Ok"
             THEN fail(TL_Read([leaf |-> lf, diff |-> d], 0, d.table_size).err)
        ELSE [err |-> "Ok", diff |-> d]

\* Diff::new; p stands for the sizes DifiPartition::new finds in the
\* descriptor
DiffNew(lf, sg, p) ==
    LET h  == lf.header
        d  == [NoDiff EXCEPT
                 !.open = TRUE,
                 !.parent_len = LeafLen(lf),
                 !.unique_id = FromLE(h.unique_id),
                 !.primary_table_offset = FromLE(h.primary_table_offset),
                 !.secondary_table_offset = FromLE(h.secondary_table_offset),
                 !.table_size = FromLE(h.table_size),
                 !.partition_offset = FromLE(h.partition_offset),
                 !.partition_size = FromLE(h.partition_size),
                 !.header_file = [signed |-> sg.some, key |-> sg.key,
                                  dirty |-> 0],
                 !.table_upper = [modified |->
                     DualNew(1, <<Zeros(FromLE(h.table_size)),
                                  Zeros(FromLE(h.table_size))>>).modified],
                 !.partition = [data_len |-> p.data_len,
                                block_len |-> p.ivfc_level4_block_len,
                                ivfc_dirty |-> Zeros(BlockCount(p)),
                                dpfs_modified |-> 0]]
        len == LeafLen(lf)
        fail(e) == [err |-> e, diff |-> NoDiff]
    IN  IF ~SubFileOk(len, 256, 256) THEN fail("OutOfBound")
        ELSE IF sg.some /\ ~SubFileOk(len, 0, 16) THEN fail("OutOfBound")
        ELSE IF sg.some /\ Mac(sg.key, h) # lf.tag THEN fail("SignatureMismatch")
        ELSE IF h.magic # Magic \/ FromLE(h.version) # Version
             THEN fail("MagicMismatch")
        ELSE IF ~SubFileOk(len, d.primary_table_offset, d.table_size)
             THEN fail("OutOfBound")
        ELSE IF ~SubFileOk(len, d.secondary_table_offset, d.table_size)
             THEN fail("OutOfBound")
        ELSE IF d.table_size = 0 THEN fail("SizeMismatch")
        ELSE IF ~SubFileOk(len, d.partition_offset, d.partition_size)
             THEN fail("OutOfBound")
        ELSE IF d.table_size # DifiCalculateSize(p)[1]
                \/ d.partition_size # DifiCalculateSize(p)[2]
             THEN fail("SizeMismatch")
        ELSE IF TL_Read([leaf |-> lf, diff |-> d], 0, d.table_size).err # "Ok"
             THEN fail(TL_Read([leaf |-> lf, diff |-> d], 0, d.table_size).err)
        ELSE [err |-> "Ok", diff |-> d]

\* SignedFile::commit of header_file: a dirty header is signed again
HeaderCommit(S) ==
    IF S.diff.header_file.signed /\ S.diff.header_file.dirty = 1
    THEN [leaf |-> [S.leaf EXCEPT
                      !.tag = Mac(S.diff.header_file.key, S.leaf.header)],
          diff |-> [S.diff EXCEPT !.header_file.dirty = 0]]
    ELSE S

\* the selector flipped before the hash of the table is stored
CommitOrderFlipFirst ==
    <<"partition", "table_upper", "table_lower", "header_file">>

\* Diff::commit: the layers in the order they are committed
CommitOrder == <<"partition", "table_lower", "table_upper", "header_file">>

\* the commit of one layer, whole
LayerCommit(S, layer) ==
    CASE layer = "partition"   -> PartitionCommit(S)
      [] layer = "table_lower" -> [err |-> "Ok", S |-> TL_Commit(S)]
      [] layer = "table_upper" -> [err |-> "Ok", S |-> TU_Commit(S)]
      [] layer = "header_file" -> [err |-> "Ok", S |-> HeaderCommit(S)]

\* the commit of one layer, up to its next write to the leaf
LayerCommitOne(S, layer) ==
    CASE layer = "partition" ->
             IF PartitionPending(S) THEN PartitionCommitOne(S)
             ELSE [err |-> "Ok", S |-> S]
      [] layer = "table_lower" -> [err |-> "Ok", S |-> TL_Commit(S)]
      [] layer = "table_upper" -> [err |-> "Ok", S |-> TU_Commit(S)]
      [] layer = "header_file" -> [err |-> "Ok", S |-> HeaderCommit(S)]

\* the layer has nothing left to do
LayerDone(S, layer) == layer = "partition" => ~PartitionPending(S)

\* Diff::commit from layer k on: the first error ends it
RECURSIVE DiffCommitFrom(_, _)
DiffCommitFrom(S, k) ==
    IF k > Len(CommitOrder) THEN [err |-> "Ok", S |-> S]
    ELSE LET r == LayerCommit(S, CommitOrder[k])
         IN  IF r.err # "Ok" THEN r ELSE DiffCommitFrom(r.S, k + 1)

\* Diff::commit
DiffCommit(S) == DiffCommitFrom(S, 1)

\* diff.partition() read in full
DiffView(S) == IV_Read(S, 0, DataLen(S))

----------------------------------------------------------------------------
(* The layout world: calculate_info and calculate_size applied to a param  *)

BlockLens == {Pow2(k) : k \in 0..MaxBlockLog}

LayoutParams ==
    [data_len : 0..MaxDataLen, dpfs_level3_block_len : BlockLens,
     ivfc_level4_block_len : BlockLens]

InitLayout ==
    /\ world = "layout"
    /\ fs = NoFs
    /\ param \in LayoutParams
    /\ info = NoInfo
    /\ selector = 0 /\ pair = <<<<>>, <<>>>> /\ modified = 0
    /\ plain = <<>> /\ hist = NoCall
    /\ signer = NoSigner /\ leaf = NoLeaf /\ diff = NoDiff /\ pc = NoPc

\* let info = Diff::calculate_info(param)
CallCalculateInfo ==
    /\ world = "layout"
    /\ info' = [op |-> "calculate_info", v |-> CalculateInfo(param), end |-> 0]
    /\ UNCHANGED <<fs, world, dualVars, param, diffVars>>

\* let end = Diff::calculate_size(param)
CallCalculateSize ==
    /\ world = "layout"
    /\ info' = [op |-> "calculate_size", v |-> ZeroInfo,
                end |-> CalculateSize(param)]
    /\ UNCHANGED <<fs, world, dualVars, param, diffVars>>

NextLayout == CallCalculateInfo \/ CallCalculateSize

SpecLayout == InitLayout /\ [][NextLayout]_vars

----------------------------------------------------------------------------
(* The DualFile world: the fuzz test of dual_file.rs, plus a reopen that   *)
(* drops the instance without a commit.                                    *)

InitDual ==
    /\ world = "dual"
    /\ fs = NoFs
    /\ param = NoParam /\ info = NoInfo
    /\ signer = NoSigner /\ leaf = NoLeaf /\ diff = NoDiff /\ pc = NoPc
    /\ selector \in {0, 1}
    /\ \E len \in 1..MaxLen : pair \in [{1, 2} -> Bufs(Byte, len)]
    /\ DualNew(1, pair).err = "Ok"
    /\ modified = DualNew(1, pair).modified
    /\ plain = DualView(selector, pair, modified)
    /\ hist = [NoCall EXCEPT !.snap = plain]

Bump(n) == IF n < MaxWrites THEN n + 1 ELSE n

\* the requests of the harness: every in-bounds (pos, n), and for each pos
\* the first n that is out of bounds
Requests(len) == {<<pos, n>> \in (0..len) \X (1..len + 1) : pos + n <= len + 1}

\* dpfs_level.write(pos, &a); plain.write(pos, &a)
Write ==
    /\ world = "dual"
    /\ \E rq \in Requests(DualLen(pair)) :
         \E buf \in Bufs(Byte, rq[2]) :
           LET pos == rq[1]
               r == DualWrite(selector, pair, modified, pos, buf)
           IN  /\ pair' = r.pair
               /\ modified' = r.modified
               /\ plain' = IF r.err = "Ok" THEN FileWrite(plain, pos, buf)
                           ELSE plain
               /\ hist' = [hist EXCEPT !.op = "write", !.out = <<>>,
                               !.ref = <<>>, !.err = r.err, !.ended = 0,
                               !.nwrites = IF r.err = "Ok" THEN Bump(@) ELSE @]
               /\ UNCHANGED <<fs, world, selector, layoutVars, diffVars>>

\* dpfs_level.read(pos, &mut a); plain.read(pos, &mut b)
Read ==
    /\ world = "dual"
    /\ \E rq \in Requests(DualLen(pair)) :
           LET pos == rq[1]
               n == rq[2]
               r == DualRead(selector, pair, modified, pos, n)
           IN  /\ hist' = [hist EXCEPT !.op = "read", !.out = r.data,
                               !.ref = IF r.err = "Ok"
                                       THEN FileRead(plain, pos, n) ELSE <<>>,
                               !.err = r.err, !.ended = 0]
               /\ UNCHANGED <<fs, world, selector, pair, modified, plain, layoutVars, diffVars>>

\* dpfs_level.commit(); in the steps world between two writes
Commit ==
    /\ world \in {"dual", "steps"} /\ pc.step = Len(pc.calls)
    /\ LET r == DualCommit(selector, modified)
       IN  /\ selector' = r.selector
           /\ modified' = r.modified
           /\ hist' = [hist EXCEPT !.op = "commit", !.out = <<>>,
                           !.ref = <<>>, !.err = r.err, !.nwrites = 0,
                           !.ended = hist.nwrites,
                           !.snap = DualView(r.selector, pair, r.modified)]
           /\ UNCHANGED <<fs, world, pair, plain, layoutVars, diffVars>>

\* dpfs_level.commit(); dpfs_level = DualFile::new(selector, pair)
CommitReconstruct ==
    /\ world = "dual"
    /\ LET r == DualCommit(selector, modified)
           d == DualNew(1, pair)
       IN  /\ d.err = "Ok"
           /\ selector' = r.selector
           /\ modified' = d.modified
           /\ hist' = [hist EXCEPT !.op = "commit_new", !.out = <<>>,
                           !.ref = <<>>, !.err = d.err, !.nwrites = 0,
                           !.ended = hist.nwrites,
                           !.snap = DualView(r.selector, pair, d.modified)]
           /\ UNCHANGED <<fs, world, pair, plain, layoutVars, diffVars>>

\* the instance is dropped with its session uncommitted and a new DualFile
\* is built over the same selector and pair; the reference file goes back
\* to what it held at the last commit
Reconstruct ==
    /\ world = "dual"
    /\ LET d == DualNew(1, pair)
       IN  /\ d.err = "Ok"
           /\ modified' = d.modified
           /\ plain' = hist.snap
           /\ hist' = [hist EXCEPT !.op = "new", !.out = <<>>,
                           !.ref = <<>>, !.err = d.err, !.nwrites = 0,
                           !.ended = hist.nwrites]
           /\ UNCHANGED <<fs, world, selector, pair, layoutVars, diffVars>>

NextFuzz == Write \/ Read \/ Commit \/ CommitReconstruct

NextDual == Write \/ Read \/ Commit \/ CommitReconstruct \/ Reconstruct

SpecFuzz == InitDual /\ [][NextFuzz]_vars

SpecDual == InitDual /\ [][NextDual]_vars

----------------------------------------------------------------------------
(* The construction of a DualFile over a selector and two copies of any    *)
(* lengths; the instance built lives on in the DualFile world.  Before     *)
(* DualFile::new, pc.step is the length of the selector.                   *)

SelectorLens == {0, 1, 2}

InitNew ==
    /\ world = "new"
    /\ fs = NoFs
    /\ param = NoParam /\ info = NoInfo
    /\ signer = NoSigner /\ leaf = NoLeaf /\ diff = NoDiff
    /\ \E n \in SelectorLens : pc = [NoPc EXCEPT !.step = n]
    /\ selector \in {0, 1}
    /\ \E a \in 1..MaxLen, b \in 1..MaxLen :
          \E p0 \in Bufs(Byte, a), p1 \in Bufs(Byte, b) : pair = <<p0, p1>>
    /\ modified = 0
    /\ plain = <<>>
    /\ hist = NoCall

\* DualFile::new(selector, pair)
Construct ==
    /\ world = "new" /\ pc.phase = "blank"
    /\ \E r \in {DualNew(pc.step, pair)} :
         IF r.err = "Ok"
         THEN /\ world' = "dual"
              /\ modified' = r.modified
              /\ plain' = DualView(selector, pair, r.modified)
              /\ hist' = [NoCall EXCEPT !.snap = plain']
              /\ pc' = NoPc
         ELSE /\ pc' = [pc EXCEPT !.phase = "dead"]
              /\ hist' = [hist EXCEPT !.err = r.err]
              /\ UNCHANGED <<world, modified, plain>>
    /\ UNCHANGED <<fs, selector, pair, layoutVars, signer, leaf, diff>>

NextNew == Construct \/ NextDual

SpecNew == InitNew /\ [][NextNew]_vars

----------------------------------------------------------------------------
(* The steps world: DualFile::write taken one write to pair[cur] at a      *)
(* time.  pc.calls lists the writes of the call, pc.step counts those      *)
(* done, pc.result tells a first write of a session from a later one,      *)
(* hist.out lists the parts written and hist.ref holds what pair[cur] held *)
(* when the call began.                                                    *)

InitSteps ==
    /\ world = "steps"
    /\ fs = NoFs
    /\ param = NoParam /\ info = NoInfo
    /\ signer = NoSigner /\ leaf = NoLeaf /\ diff = NoDiff /\ pc = NoPc
    /\ selector \in {0, 1}
    /\ \E len \in 1..MaxLen : pair \in [{1, 2} -> Bufs(Byte, len)]
    /\ DualNew(1, pair).err = "Ok"
    /\ modified = DualNew(1, pair).modified
    /\ plain = <<>>
    /\ hist = NoCall

\* DualFile::write up to the selector read: the bounds check is made and
\* the writes to come are settled
BeginWrite ==
    /\ world = "steps" /\ pc.step = Len(pc.calls)
    /\ \E rq \in Requests(DualLen(pair)) :
         \E buf \in Bufs(Byte, rq[2]) :
           \E st \in {DualWriteSteps(selector, pair, modified, rq[1], buf)} :
             /\ pc' = [phase |-> IF st = <<>> THEN "blank" ELSE "write",
                       step |-> 0, calls |-> st,
                       result |-> IF modified = 0 THEN "first" ELSE "later"]
             /\ hist' = [hist EXCEPT !.op = "write", !.out = <<>>,
                             !.ref = pair[2 - selector],
                             !.err = IF st = <<>> THEN "OutOfBound" ELSE "Ok"]
    /\ UNCHANGED <<fs, world, selector, pair, modified, plain, layoutVars, signer,
                   leaf, diff>>

\* the next write of the call to pair[cur]; after the last one the flag is
\* set and the call returns
StepWrite ==
    /\ world = "steps" /\ pc.step < Len(pc.calls)
    /\ LET st   == pc.calls[pc.step + 1]
           cur  == 1 - selector
           last == pc.step + 1 = Len(pc.calls)
       IN  /\ pair' = [pair EXCEPT ![cur + 1] = FileWrite(@, st.pos, st.buf)]
           /\ modified' = IF last THEN 1 ELSE modified
           /\ pc' = [pc EXCEPT !.step = @ + 1,
                               !.phase = IF last THEN "blank" ELSE @]
           /\ hist' = [hist EXCEPT !.out = Append(@, st.part)]
    /\ UNCHANGED <<fs, world, selector, plain, layoutVars, signer, leaf, diff>>

NextSteps == BeginWrite \/ StepWrite \/ Commit

SpecSteps == InitSteps /\ [][NextSteps]_vars

----------------------------------------------------------------------------
(* The diff world: the fuzz test of diff.rs over one leaf.  Diff::commit   *)
(* is taken one write to the leaf at a time, and may fail at a layer or    *)
(* be cut short by the stop of the program.                                *)

DiffParams ==
    [data_len : {DiffDataLen},
     dpfs_level3_block_len : {Pow2(DiffBlockLog)},
     ivfc_level4_block_len : {Pow2(k) : k \in 0..DiffBlockLog}]

Signers == {NoSigner, [some |-> TRUE, key |-> 1]}

UniqueIds == {0, 513}

\* the unique ids a world formats with: the fuzz test formats with 0, the
\* tamper world with an id that is not 0
IdsOf(w) ==
    IF w = "diff" THEN {0}
    ELSE IF w = "tamper" THEN UniqueIds \ {0} ELSE UniqueIds

\* let parent = MemoryFile::new(vec![0; Diff::calculate_size(&param)])
InitDiff ==
    /\ world = "diff"
    /\ fs = NoFs
    /\ param \in DiffParams
    /\ signer \in Signers
    /\ leaf = [NoLeaf EXCEPT !.body = Zeros(CalculateSize(param) - HeaderEnd)]
    /\ diff = NoDiff
    /\ pc = NoPc
    /\ plain = <<>> /\ hist = NoCall
    /\ selector = 0 /\ pair = <<<<>>, <<>>>> /\ modified = 0
    /\ info = NoInfo

Live == [leaf |-> leaf, diff |-> diff]

\* Diff::format(parent, signer, &param, unique_id)
Format ==
    /\ world \in {"diff", "format", "tamper"} /\ pc.phase = "blank"
    /\ \E uid \in IdsOf(world) :
         \E r \in {DiffFormat(leaf, signer, param, uid)} :
             /\ leaf' = r.leaf
             /\ pc' = [pc EXCEPT !.phase = IF r.err = "Ok" THEN "formatted"
                                           ELSE "dead"]
             /\ hist' = [hist EXCEPT !.op = "format", !.err = r.err,
                             !.ref = <<uid>>]
    /\ UNCHANGED <<fs, world, selector, pair, modified, plain, layoutVars, signer,
                   diff>>

\* let diff = Diff::new(parent, signer)
Open ==
    /\ world \in {"diff", "format", "tamper"} /\ pc.phase = "formatted"
    /\ \E r \in {DiffNew(leaf, signer, param)} :
           /\ diff' = r.diff
           /\ pc' = [pc EXCEPT !.phase = IF r.err = "Ok" THEN "open" ELSE "dead"]
           /\ plain' = Zeros(param.data_len)
           /\ hist' = [hist EXCEPT !.op = "open", !.err = r.err,
                           !.snap = Zeros(param.data_len)]
    /\ UNCHANGED <<fs, world, selector, pair, modified, layoutVars, signer, leaf>>

\* diff.partition().write(pos, &a); plain.write(pos, &a).  In this world
\* hist.nwrites is 1 once a write went through since the last commit.  The
\* tamper world writes one session only, before its first commit.
PWrite ==
    /\ world \in {"diff", "tamper"} /\ pc.phase = "open"
    /\ world = "tamper" => pc.result = "none"
    /\ \E rq \in Requests(param.data_len) :
         \E buf \in Bufs(Byte, rq[2]) :
           \E r \in {IV_Write(Live, rq[1], buf)} :
               /\ leaf' = r.S.leaf
               /\ diff' = r.S.diff
               /\ plain' = IF r.err = "Ok" THEN FileWrite(plain, rq[1], buf)
                           ELSE plain
               /\ hist' = [hist EXCEPT !.op = "write", !.out = <<>>,
                               !.ref = <<>>, !.err = r.err, !.ended = 0,
                               !.nwrites = IF r.err = "Ok" THEN 1 ELSE @]
    /\ UNCHANGED <<fs, world, selector, pair, modified, layoutVars, signer, pc>>

\* diff.partition().read(pos, &mut a); plain.read(pos, &mut b);
\* assert_eq!(a, b): the call is recorded "Differs" when the bytes differ
PRead ==
    /\ world \in {"diff", "tamper"} /\ pc.phase \in {"open", "reopened"}
    /\ \E rq \in Requests(param.data_len) :
           \E r \in {IV_Read(Live, rq[1], rq[2])} :
               hist' = [hist EXCEPT !.op = "read", !.out = <<>>, !.ref = <<>>,
                            !.err = IF r.err = "Ok"
                                       /\ r.data # FileRead(plain, rq[1], rq[2])
                                    THEN "Differs" ELSE r.err,
                            !.ended = 0]
    /\ UNCHANGED <<fs, world, selector, pair, modified, plain, layoutVars, diffVars>>

\* the number of layers the running Diff::commit is through with
CommitAt(c) == IF c.phase = "open" THEN 0 ELSE c.step

\* Diff::commit, up to the next write to the leaf.  pc.step counts the
\* layers committed, pc.calls lists the layers whose commit was called.
CommitStep ==
    /\ world \in {"diff", "tamper"} /\ pc.phase \in {"open", "commit"}
    /\ \E r \in {LayerCommitOne(Live, CommitOrder[CommitAt(pc) + 1])} :
       LET step  == CommitAt(pc)
           calls == IF pc.phase = "open" THEN <<>> ELSE pc.calls
           layer == CommitOrder[step + 1]
           done  == LayerDone(r.S, layer)
           next  == IF done THEN step + 1 ELSE step
           log   == IF calls # <<>> /\ calls[Len(calls)] = layer
                    THEN calls ELSE Append(calls, layer)
           end   == next = Len(CommitOrder)
       IN  /\ r.err = "Ok"
           /\ leaf' = r.S.leaf
           /\ diff' = r.S.diff
           /\ pc' = [phase |-> IF end THEN "open" ELSE "commit",
                     step |-> next, calls |-> log,
                     result |-> IF end THEN "Ok" ELSE "none"]
           /\ hist' = IF end
                      THEN [hist EXCEPT !.op = "commit", !.out = <<>>,
                                !.ref = <<>>, !.err = "Ok", !.nwrites = 0,
                                !.ended = hist.nwrites, !.snap = plain]
                      ELSE [hist EXCEPT !.op = "committing", !.out = <<>>,
                                !.ref = <<>>, !.err = "Ok"]
    /\ UNCHANGED <<fs, world, selector, pair, modified, plain, layoutVars, signer>>

\* the Diff is dropped between two calls and Diff::new runs over the same
\* leaf with the same signer and key; the reference file goes back to what
\* it held at the last commit
Reopen ==
    /\ world = "diff" /\ pc.phase = "open"
    /\ \E r \in {DiffNew(leaf, signer, param)} :
           /\ diff' = r.diff
           /\ pc' = [pc EXCEPT !.phase = IF r.err = "Ok" THEN "open" ELSE "dead"]
           /\ plain' = hist.snap
           /\ hist' = [hist EXCEPT !.op = "reopen", !.out = <<>>, !.ref = <<>>,
                           !.err = r.err, !.nwrites = 0,
                           !.ended = hist.nwrites]
    /\ UNCHANGED <<fs, world, selector, pair, modified, layoutVars, signer, leaf>>

\* Diff::commit ends at the `?` of the next layer's commit: the layer
\* returns an error, its write does not reach the leaf
FailStep ==
    /\ world = "diff" /\ pc.phase \in {"open", "commit"}
    /\ LET step  == IF pc.phase = "open" THEN 0 ELSE pc.step
           calls == IF pc.phase = "open" THEN <<>> ELSE pc.calls
           layer == CommitOrder[step + 1]
           log   == IF calls # <<>> /\ calls[Len(calls)] = layer
                    THEN calls ELSE Append(calls, layer)
       IN  /\ pc' = [phase |-> "failed", step |-> step, calls |-> log,
                     result |-> "IoError"]
           /\ hist' = [hist EXCEPT !.op = "commit_failed", !.out = <<>>,
                           !.ref = <<>>, !.err = "IoError"]
    /\ UNCHANGED <<fs, world, selector, pair, modified, plain, layoutVars, signer,
                   leaf, diff>>

\* the program stops inside Diff::commit, between two writes to the leaf,
\* and Diff::new runs over what the leaf holds.  hist.out is the view it
\* gives, hist.ref the view the commit was publishing, hist.snap the view
\* of the commit before.
Crash ==
    /\ world = "diff" /\ pc.phase \in {"commit", "failed"}
    /\ \E r \in {DiffNew(leaf, signer, param)} :
       \E v \in {IF r.err = "Ok" THEN DiffView([leaf |-> leaf, diff |-> r.diff])
                  ELSE [err |-> r.err, data |-> <<>>]} :
           /\ diff' = r.diff
           /\ pc' = [pc EXCEPT !.phase = "crashed"]
           /\ hist' = [hist EXCEPT !.op = "crash",
                           !.out = v.data, !.ref = plain, !.err = v.err]
    /\ UNCHANGED <<fs, world, selector, pair, modified, plain, layoutVars, signer,
                   leaf>>

NextDiff ==
    \/ Format \/ Open \/ PWrite \/ PRead \/ CommitStep \/ Reopen
    \/ FailStep \/ Crash

SpecDiff == InitDiff /\ [][NextDiff]_vars

----------------------------------------------------------------------------
(* The format world: Diff::format then Diff::new, over every param *)

FormatParams ==
    [data_len : 1..FormatDataLen,
     dpfs_level3_block_len : {Pow2(k) : k \in 0..DiffBlockLog + 1},
     ivfc_level4_block_len : {Pow2(k) : k \in 0..DiffBlockLog + 1}]

InitFormat ==
    /\ world = "format"
    /\ fs = NoFs
    /\ param \in FormatParams
    /\ signer \in Signers
    /\ leaf = [NoLeaf EXCEPT !.body = Zeros(CalculateSize(param) - HeaderEnd)]
    /\ diff = NoDiff
    /\ pc = NoPc
    /\ plain = <<>> /\ hist = NoCall
    /\ selector = 0 /\ pair = <<<<>>, <<>>>> /\ modified = 0
    /\ info = NoInfo

NextFormat == Format \/ Open

SpecFormat == InitFormat /\ [][NextFormat]_vars

\* DualFile and Diff side by side
InitAll == InitDual \/ InitDiff

NextAll == NextDual \/ NextDiff

SpecAll == InitAll /\ [][NextAll]_vars

----------------------------------------------------------------------------
(* The tamper world: a Diff is formatted, opened, written and committed;   *)
(* then, with nothing uncommitted, it is dropped, one byte of the leaf is  *)
(* changed behind its back, and Diff::new runs over the leaf again.        *)

InitTamper ==
    /\ world = "tamper"
    /\ fs = NoFs
    /\ param \in DiffParams
    /\ signer \in Signers
    /\ leaf = [NoLeaf EXCEPT !.body = Zeros(CalculateSize(param) - HeaderEnd)]
    /\ diff = NoDiff
    /\ pc = NoPc
    /\ plain = <<>> /\ hist = NoCall
    /\ selector = 0 /\ pair = <<<<>>, <<>>>> /\ modified = 0
    /\ info = NoInfo

\* a byte given another value
OtherByte(b) == (b + 1) % 256

\* a cell of the leaf after 0x200 given another value
OtherCell(v) == IF v = 0 THEN 1 ELSE v - 1

\* the fields of the header kept as bytes
ByteFields == DOMAIN ZeroHeader \ {"active_table", "sha", "rest"}

\* the bytes of the header that are changed: of a field the bytes a u32
\* has, and the selector, the hash and the rest of the region as a whole
HeaderBytes ==
    {<<f, i>> \in ByteFields \X (1..Len(ZeroHeader.version)) :
        i <= Len(ZeroHeader[f])}
    \cup {<<"active_table", 1>>, <<"sha", 1>>, <<"rest", 1>>}

\* header h with byte i of field f changed
ChangeHeader(h, f, i) ==
    CASE f = "active_table" -> [h EXCEPT !.active_table = 1 - @]
      [] f = "sha" -> [h EXCEPT !.sha = IF @ = NoTableHash THEN TableSha(<<>>)
                                        ELSE NoTableHash]
      [] f = "rest" -> [h EXCEPT !.rest = @ + 1]
      [] OTHER -> [h EXCEPT ![f][i] = OtherByte(@)]

\* where the cell at off after 0x200 lies for the committed Diff S: in a
\* copy of the table, in a copy of the data, or in neither; and its place
\* there
RegionOf(S, off) ==
    LET at  == HeaderEnd + off
        act == S.leaf.header.active_table
        sel == TU_Read(S, 0, 1).data[1]
        In(a, n) == a <= at /\ at < a + n
        data(k) == S.diff.partition_offset + k * DataLen(S)
    IN  IF In(TableOffset(S.diff, act), S.diff.table_size)
        THEN <<"table_active", at - TableOffset(S.diff, act)>>
        ELSE IF In(TableOffset(S.diff, 1 - act), S.diff.table_size)
        THEN <<"table_inactive", at - TableOffset(S.diff, 1 - act)>>
        ELSE IF In(data(sel), DataLen(S))
        THEN <<"data_active", at - data(sel)>>
        ELSE IF In(data(1 - sel), DataLen(S))
        THEN <<"data_inactive", at - data(1 - sel)>>
        ELSE <<"gap", 0>>

\* the Diff is dropped and one byte of the header region is changed.
\* From here on pc.calls lists what was done to the leaf, pc.result and
\* pc.step name the byte.
TamperHeader ==
    /\ world = "tamper" /\ pc.phase = "open" /\ hist.nwrites = 0
    /\ \E fi \in HeaderBytes :
         /\ leaf' = [leaf EXCEPT !.header = ChangeHeader(@, fi[1], fi[2])]
         /\ pc' = [phase |-> "tampered", step |-> fi[2],
                   calls |-> <<"header">>, result |-> fi[1]]
    /\ diff' = NoDiff
    /\ hist' = [hist EXCEPT !.op = "tamper", !.err = "Ok"]
    /\ UNCHANGED <<fs, world, selector, pair, modified, plain, layoutVars, signer>>

\* the Diff is dropped and one cell of the leaf after 0x200 is changed
TamperBody ==
    /\ world = "tamper" /\ pc.phase = "open" /\ hist.nwrites = 0
    /\ \E off \in 0..Len(leaf.body) - 1 :
         \E rg \in {RegionOf(Live, off)} :
           /\ leaf' = [leaf EXCEPT !.body[off + 1] = OtherCell(@)]
           /\ pc' = [phase |-> "tampered", step |-> rg[2],
                     calls |-> <<rg[1]>>, result |-> "body"]
    /\ diff' = NoDiff
    /\ hist' = [hist EXCEPT !.op = "tamper", !.err = "Ok"]
    /\ UNCHANGED <<fs, world, selector, pair, modified, plain, layoutVars, signer>>

\* the changed header is signed with the key of the save, as a tool that
\* holds the key would
Resign ==
    /\ world = "tamper" /\ pc.phase = "tampered" /\ pc.calls = <<"header">>
    /\ signer.some
    /\ leaf' = [leaf EXCEPT !.tag = Mac(signer.key, leaf.header)]
    /\ pc' = [pc EXCEPT !.calls = <<"header", "resign">>]
    /\ hist' = [hist EXCEPT !.op = "resign", !.err = "Ok"]
    /\ UNCHANGED <<fs, world, selector, pair, modified, plain, layoutVars, signer,
                   diff>>

\* Diff::new(parent, signer) over the changed leaf
OpenTampered ==
    /\ world = "tamper" /\ pc.phase = "tampered"
    /\ \E r \in {DiffNew(leaf, signer, param)} :
           /\ diff' = r.diff
           /\ pc' = [pc EXCEPT !.phase = IF r.err = "Ok" THEN "reopened"
                                         ELSE "dead"]
           /\ hist' = [hist EXCEPT !.op = "reopen", !.err = r.err]
    /\ UNCHANGED <<fs, world, selector, pair, modified, plain, layoutVars, signer,
                   leaf>>

NextTamper ==
    \/ Format \/ Open \/ PWrite \/ PRead \/ CommitStep
    \/ TamperHeader \/ TamperBody \/ Resign \/ OpenTampered

SpecTamper == InitTamper /\ [][NextTamper]_vars

\* format and new over every param and id, and the tamper world
InitIds == InitFormat \/ InitTamper

NextIds == NextFormat \/ NextTamper

SpecIds == InitIds /\ [][NextIds]_vars

----------------------------------------------------------------------------
(* The fuse world: the request handlers of SaveDataFilesystem (main.rs)    *)
(* over a save of one directory level.  fs.save.file maps the inode of a   *)
(* file to its name and bytes, fs.save.dir is the set of the names of the  *)
(* sub-directories of the root.  What a call on the save data returns      *)
(* beyond what the save holds (NoSpace, HashMismatch, an I/O error) is     *)
(* drawn with the request.  fs.calls lists the calls the last handler made *)
(* on the save data, fs.reply the replies it sent, fs.out what it sent.    *)
(* fs.arg holds fh, offset and size of a read, a write or a release,       *)
(* fs.win the window (pos, len) the handler passed to File::read or        *)
(* File::write, fs.commits the calls of SaveData::commit so far, and       *)
(* fs.mounted falls when the SaveDataFilesystem is dropped.                *)

MaxNames == 2

MaxFileLen == 2

MaxFh == 2

\* the requests of a mount
MaxRequests == 3

Names == 1..MaxNames

\* Ino::Dir(_) and Ino::File(_), as a request names a parent or an inode
InoKinds == {"Dir", "File"}

\* HashMap::insert and HashMap::remove
Insert(t, k, v) == [i \in DOMAIN t \cup {k} |-> IF i = k THEN v ELSE t[i]]

Remove(t, k) == [i \in DOMAIN t \ {k} |-> t[i]]

\* the inodes of the files of this name: one or none
FileNamed(save, name) == {i \in DOMAIN save.file : save.file[i].name = name}

\* a handle of fh_map is open on the file
Held(f, ino) == \E h \in DOMAIN f.fh_map : f.fh_map[h] = ino

\* the handler returns: what it called and what it replied
Answer(f, req, calls, reply, out) ==
    [f EXCEPT !.req = req, !.calls = calls, !.reply = reply, !.out = out,
              !.served = @ + 1, !.arg = <<>>, !.win = <<>>]

\* what a read or a write of a window of a file returns: OutOfBound for a
\* window that ends past the file, else what is drawn with the request
FileOutcome(data, pos, n, o) == IF pos + n > Len(data) THEN "OutOfBound" ELSE o

\* a handler returns at the first call that fails: of the calls of a
\* request, at most one is drawn to fail
OneFault(os) == Cardinality({i \in DOMAIN os : os[i] # "Ok"}) <= 1

\* a mount that refuses nothing
RefusedNever(f) == FALSE

\* the first statement of the handlers that change the save data:
\* if self.read_only { reply.error(EROFS); return; }
Refused(f) == f.read_only

\* SaveDataFilesystem::new(save, read_only) over a save of one file and one
\* directory
InitFuse ==
    /\ world = "fuse"
    /\ fs \in [read_only : BOOLEAN,
               save : {[file |-> Insert(<<>>, 1, [name |-> 1, data |-> <<0, 1>>]),
                        dir |-> {1}]},
               fh_map : {Remove(<<>>, 1)}, next_fh : {1},
               req : {"none"}, calls : {<<>>}, reply : {<<>>}, out : {<<>>},
               served : {0}, arg : {<<>>}, win : {<<>>},
               mounted : {TRUE}, commits : {0}]
    /\ param = NoParam /\ info = NoInfo
    /\ signer = NoSigner /\ leaf = NoLeaf /\ diff = NoDiff /\ pc = NoPc
    /\ selector = 0 /\ pair = <<<<>>, <<>>>> /\ modified = 0
    /\ plain = <<>> /\ hist = NoCall

\* fn mkdir
Mkdir ==
    /\ world = "fuse" /\ fs.mounted /\ fs.served < MaxRequests
    /\ \E parent \in InoKinds, name \in Names, o1 \in {"Ok", "IoError"},
          o2 \in {"Ok", "NoSpace", "IoError"} :
         LET calls == <<"Dir::open_ino", "Dir::new_sub_dir">>
         IN  OneFault(<<o1, o2>>) /\ fs' =
             IF Refused(fs) THEN Answer(fs, "mkdir", <<>>, <<"EROFS">>, <<>>)
             ELSE IF parent = "File"
             THEN Answer(fs, "mkdir", <<>>, <<"ENOTDIR">>, <<>>)
             ELSE IF o1 # "Ok"
             THEN Answer(fs, "mkdir", <<"Dir::open_ino">>, <<"EIO">>, <<>>)
             ELSE IF name \in fs.save.dir
             THEN Answer(fs, "mkdir", calls, <<"EEXIST">>, <<>>)
             ELSE IF o2 = "NoSpace"
             THEN Answer(fs, "mkdir", calls, <<"ENOSPC">>, <<>>)
             ELSE IF o2 # "Ok" THEN Answer(fs, "mkdir", calls, <<"EIO">>, <<>>)
             ELSE [Answer(fs, "mkdir", calls, <<"entry">>, <<>>) EXCEPT
                     !.save.dir = @ \cup {name}]
    /\ UNCHANGED <<world, dualVars, layoutVars, diffVars>>

\* fn mknod: the new file is empty and takes the lowest free inode
Mknod ==
    /\ world = "fuse" /\ fs.mounted /\ fs.served < MaxRequests
    /\ \E parent \in InoKinds, name \in Names, o1 \in {"Ok", "IoError"},
          o2 \in {"Ok", "NoSpace", "IoError"} :
         LET calls == <<"Dir::open_ino", "Dir::new_sub_file">>
             free  == Names \ DOMAIN fs.save.file
             ino   == CHOOSE i \in free : \A j \in free : i <= j
         IN  OneFault(<<o1, o2>>) /\ fs' =
             IF Refused(fs) THEN Answer(fs, "mknod", <<>>, <<"EROFS">>, <<>>)
             ELSE IF parent = "File"
             THEN Answer(fs, "mknod", <<>>, <<"ENOTDIR">>, <<>>)
             ELSE IF o1 # "Ok"
             THEN Answer(fs, "mknod", <<"Dir::open_ino">>, <<"EIO">>, <<>>)
             ELSE IF FileNamed(fs.save, name) # {}
             THEN Answer(fs, "mknod", calls, <<"EEXIST">>, <<>>)
             ELSE IF o2 = "NoSpace"
             THEN Answer(fs, "mknod", calls, <<"ENOSPC">>, <<>>)
             ELSE IF o2 # "Ok" THEN Answer(fs, "mknod", calls, <<"EIO">>, <<>>)
             ELSE [Answer(fs, "mknod", calls, <<"entry">>, <<>>) EXCEPT
                     !.save.file = Insert(@, ino, [name |-> name, data |-> <<>>])]
    /\ UNCHANGED <<world, dualVars, layoutVars, diffVars>>

\* fn rmdir
Rmdir ==
    /\ world = "fuse" /\ fs.mounted /\ fs.served < MaxRequests
    /\ \E parent \in InoKinds, name \in Names, o1 \in {"Ok", "IoError"},
          o2 \in {"Ok", "NotEmpty", "IoError"} :
         LET calls == <<"Dir::open_ino", "Dir::open_sub_dir">>
         IN  OneFault(<<o1, o2>>) /\ fs' =
             IF Refused(fs) THEN Answer(fs, "rmdir", <<>>, <<"EROFS">>, <<>>)
             ELSE IF parent = "File"
             THEN Answer(fs, "rmdir", <<>>, <<"ENOTDIR">>, <<>>)
             ELSE IF o1 # "Ok"
             THEN Answer(fs, "rmdir", <<"Dir::open_ino">>, <<"EIO">>, <<>>)
             ELSE IF name \notin fs.save.dir
             THEN Answer(fs, "rmdir", calls, <<"ENOENT">>, <<>>)
             ELSE IF o2 = "NotEmpty"
             THEN Answer(fs, "rmdir", Append(calls, "Dir::delete"),
                         <<"ENOTEMPTY">>, <<>>)
             ELSE IF o2 # "Ok"
             THEN Answer(fs, "rmdir", Append(calls, "Dir::delete"),
                         <<"EIO">>, <<>>)
             ELSE [Answer(fs, "rmdir", Append(calls, "Dir::delete"),
                          <<"ok">>, <<>>) EXCEPT !.save.dir = @ \ {name}]
    /\ UNCHANGED <<world, dualVars, layoutVars, diffVars>>

\* fn unlink; a file with an open handle is not unlinked by the harness
Unlink ==
    /\ world = "fuse" /\ fs.mounted /\ fs.served < MaxRequests
    /\ \E parent \in InoKinds, name \in Names, o1 \in {"Ok", "IoError"},
          o2 \in {"Ok", "IoError"} :
         LET calls == <<"Dir::open_ino", "Dir::open_sub_file">>
             found == FileNamed(fs.save, name)
             ino   == CHOOSE i \in found : TRUE
         IN  /\ OneFault(<<o1, o2>>)
             /\ fs.read_only \/ \A i \in found : ~Held(fs, i)
             /\ fs' =
                IF Refused(fs)
                THEN Answer(fs, "unlink", <<>>, <<"EROFS">>, <<>>)
                ELSE IF parent = "File"
                THEN Answer(fs, "unlink", <<>>, <<"ENOTDIR">>, <<>>)
                ELSE IF o1 # "Ok"
                THEN Answer(fs, "unlink", <<"Dir::open_ino">>, <<"EIO">>, <<>>)
                ELSE IF found = {}
                THEN Answer(fs, "unlink", calls, <<"ENOENT">>, <<>>)
                ELSE IF o2 # "Ok"
                THEN Answer(fs, "unlink", Append(calls, "File::delete"),
                            <<"EIO">>, <<>>)
                ELSE [Answer(fs, "unlink", Append(calls, "File::delete"),
                             <<"ok">>, <<>>) EXCEPT
                        !.save.file = Remove(@, ino)]
    /\ UNCHANGED <<world, dualVars, layoutVars, diffVars>>

\* an open that gives next_fh and leaves it
FuseOpenReuse ==
    /\ world = "fuse" /\ fs.mounted /\ fs.served < MaxRequests
    /\ \E kind \in InoKinds, ino \in 1..MaxNames + 1 :
         fs' =
         IF kind = "Dir" THEN Answer(fs, "open", <<>>, <<"EISDIR">>, <<>>)
         ELSE IF ino \notin DOMAIN fs.save.file
         THEN Answer(fs, "open", <<"File::open_ino">>, <<"ENOENT">>, <<>>)
         ELSE [Answer(fs, "open", <<"File::open_ino">>, <<"opened">>,
                      <<fs.next_fh>>) EXCEPT
                 !.fh_map = Insert(@, fs.next_fh, ino)]
    /\ UNCHANGED <<world, dualVars, layoutVars, diffVars>>

\* fn open; next_fh stays within MaxFh
FuseOpen ==
    /\ world = "fuse" /\ fs.mounted /\ fs.served < MaxRequests /\ fs.next_fh <= MaxFh
    /\ \E kind \in InoKinds, ino \in 1..MaxNames + 1, o \in {"Ok", "IoError"} :
         fs' =
         IF kind = "Dir" THEN Answer(fs, "open", <<>>, <<"EISDIR">>, <<>>)
         ELSE IF ino \notin DOMAIN fs.save.file \/ o # "Ok"
         THEN Answer(fs, "open", <<"File::open_ino">>, <<"ENOENT">>, <<>>)
         ELSE [Answer(fs, "open", <<"File::open_ino">>, <<"opened">>,
                      <<fs.next_fh>>) EXCEPT
                 !.fh_map = Insert(@, fs.next_fh, ino),
                 !.next_fh = @ + 1]
    /\ UNCHANGED <<world, dualVars, layoutVars, diffVars>>

\* fn release
Release ==
    /\ world = "fuse" /\ fs.mounted /\ fs.served < MaxRequests
    /\ \E fh \in 1..MaxFh + 1 :
         fs' = [Answer(fs, "release", <<>>, <<"ok">>, <<>>) EXCEPT
                  !.fh_map = Remove(@, fh), !.arg = <<fh>>]
    /\ UNCHANGED <<world, dualVars, layoutVars, diffVars>>

\* a read that rejects HashMismatch as it rejects the other errors
ReadReplyStrict(o) == IF o = "Ok" THEN "data" ELSE "EIO"

\* fn read, the match on what File::read returned: the buffer is sent on
\* Ok and on HashMismatch
ReadReply(o) == IF o \in {"Ok", "HashMismatch"} THEN "data" ELSE "EIO"

\* fn write, the match on what File::resize returned; "none" is no reply
ResizeReply(o) ==
    IF o = "Ok" THEN "none" ELSE IF o = "NoSpace" THEN "ENOSPC" ELSE "EIO"

\* fn write, the match on what File::write returned
WriteReply(o) == IF o = "Ok" THEN "written" ELSE "EIO"

\* fn read.  The last entry of fs.calls is what File::read returned; on
\* HashMismatch the buffer holds the bytes of the file.
FuseRead ==
    /\ world = "fuse" /\ fs.mounted /\ fs.served < MaxRequests
    /\ \E fh \in 1..MaxFh + 1, offset \in 0..MaxFileLen,
          size \in 0..MaxFileLen + 1, o \in {"Ok", "HashMismatch", "IoError"} :
         LET file == fs.save.file[fs.fh_map[fh]]
             end  == Min(offset + size, Len(file.data))
             got  == FileOutcome(file.data, offset, end - offset, o)
             seen(f) == [f EXCEPT !.arg = <<fh, offset, size>>]
         IN  fs' =
             IF fh \notin DOMAIN fs.fh_map
             THEN seen(Answer(fs, "read", <<>>, <<"EBADF">>, <<>>))
             ELSE IF size = 0
             THEN seen(Answer(fs, "read", <<>>, <<"data">>, <<>>))
             ELSE IF end <= offset
             THEN seen(Answer(fs, "read", <<"File::len">>, <<"data">>, <<>>))
             ELSE [seen(Answer(fs, "read", <<"File::len", "File::read", got>>,
                               <<ReadReply(got)>>,
                               IF ReadReply(got) = "data"
                               THEN FileRead(file.data, offset, end - offset)
                               ELSE <<>>))
                     EXCEPT !.win = <<offset, end - offset>>]
    /\ UNCHANGED <<world, dualVars, layoutVars, diffVars>>

\* fn write.  File::write is called inside the branch end > file.len()
\* only; a write that ends within the file calls nothing and sends no
\* reply.  A resize that fails leaves the file as it was; a write that
\* fails leaves the resized file.
FuseWrite ==
    /\ world = "fuse" /\ fs.mounted /\ fs.served < MaxRequests
    /\ \E fh \in 1..MaxFh + 1, offset \in 0..MaxFileLen, n \in 0..MaxFileLen,
          o1 \in {"Ok", "NoSpace", "HashMismatch", "IoError"},
          o2 \in {"Ok", "HashMismatch", "IoError"} :
       \E data \in Bufs(Byte, n) :
         LET ino  == fs.fh_map[fh]
             file == fs.save.file[ino]
             end  == offset + Len(data)
             grown == file.data \o Zeros(end - Len(file.data))
             got  == FileOutcome(grown, offset, Len(data), o2)
             seen(f) == [f EXCEPT !.arg = <<fh, offset, Len(data)>>]
         IN  /\ OneFault(<<o1, o2>>)
             /\ end <= MaxFileLen
             /\ fs' =
                IF Refused(fs)
                THEN seen(Answer(fs, "write", <<>>, <<"EROFS">>, <<>>))
                ELSE IF fh \notin DOMAIN fs.fh_map
                THEN seen(Answer(fs, "write", <<>>, <<"EBADF">>, <<>>))
                ELSE IF data = <<>>
                THEN seen(Answer(fs, "write", <<>>, <<"written">>, <<0>>))
                ELSE IF end > Len(file.data)
                THEN IF ResizeReply(o1) # "none"
                     THEN seen(Answer(fs, "write",
                                      <<"File::len", "File::resize", o1>>,
                                      <<ResizeReply(o1)>>, <<>>))
                     ELSE [seen(Answer(fs, "write",
                                       <<"File::len", "File::resize", o1,
                                         "File::write", got>>,
                                       <<WriteReply(got)>>,
                                       IF got = "Ok" THEN <<Len(data)>>
                                       ELSE <<>>))
                             EXCEPT !.win = <<offset, Len(data)>>,
                                    !.save.file[ino].data =
                                        IF got = "Ok"
                                        THEN FileWrite(grown, offset, data)
                                        ELSE grown]
                ELSE seen(Answer(fs, "write", <<"File::len">>, <<>>, <<>>))
    /\ UNCHANGED <<world, dualVars, layoutVars, diffVars>>

\* fn rename, of a name to another name; a file with an open handle is
\* not replaced by the harness
Rename ==
    /\ world = "fuse" /\ fs.mounted /\ fs.served < MaxRequests
    /\ \E parent \in InoKinds, newparent \in InoKinds, name \in Names,
          o1 \in {"Ok", "IoError"},
          o2 \in {"Ok", "IoError"}, o3 \in {"Ok", "NotEmpty", "IoError"},
          o4 \in {"Ok", "AlreadyExist", "IoError"} :
       \E newname \in Names \ {name} :
         LET src  == FileNamed(fs.save, name)
             dst  == FileNamed(fs.save, newname)
             ino  == CHOOSE i \in src : TRUE
             old  == CHOOSE i \in dst : TRUE
             open == <<"Dir::open_ino", "Dir::open_ino">>
             gone == IF dst = {} THEN fs.save.file ELSE Remove(fs.save.file, old)
             dirs == fs.save.dir \ {newname}
             del(c) == IF c THEN <<"delete">> ELSE <<>>
             errno == IF o4 = "AlreadyExist" THEN "EEXIST" ELSE "EIO"
         IN  /\ OneFault(<<o1, o2, o3, o4>>)
             /\ fs.read_only \/ \A i \in dst : ~Held(fs, i)
             /\ fs' =
                IF Refused(fs)
                THEN Answer(fs, "rename", <<>>, <<"EROFS">>, <<>>)
                ELSE IF parent = "File"
                THEN Answer(fs, "rename", <<>>, <<"ENOTDIR">>, <<>>)
                ELSE IF o1 # "Ok"
                THEN Answer(fs, "rename", <<"Dir::open_ino">>, <<"EIO">>, <<>>)
                ELSE IF newparent = "File"
                THEN Answer(fs, "rename", <<"Dir::open_ino">>, <<"ENOTDIR">>,
                            <<>>)
                ELSE IF o2 # "Ok"
                THEN Answer(fs, "rename", open, <<"EIO">>, <<>>)
                ELSE IF src # {}
                THEN IF dst # {} /\ o3 = "IoError"
                     THEN Answer(fs, "rename", open \o <<"delete">>,
                                 <<"EIO">>, <<>>)
                     ELSE IF o4 # "Ok"
                     THEN [Answer(fs, "rename",
                                  open \o del(dst # {}) \o <<"rename">>,
                                  <<errno>>, <<>>)
                             EXCEPT !.save.file = gone]
                     ELSE [Answer(fs, "rename",
                                  open \o del(dst # {}) \o <<"rename">>,
                                  <<"ok">>, <<>>)
                             EXCEPT !.save.file =
                                        [gone EXCEPT ![ino].name = newname]]
                ELSE IF name \in fs.save.dir
                THEN IF newname \in fs.save.dir /\ o3 = "NotEmpty"
                     THEN Answer(fs, "rename", open \o <<"delete">>,
                                 <<"ENOTEMPTY">>, <<>>)
                     ELSE IF newname \in fs.save.dir /\ o3 # "Ok"
                     THEN Answer(fs, "rename", open \o <<"delete">>,
                                 <<"EIO">>, <<>>)
                     ELSE IF o4 # "Ok"
                     THEN [Answer(fs, "rename",
                                  open \o del(newname \in fs.save.dir)
                                       \o <<"rename">>, <<errno>>, <<>>)
                             EXCEPT !.save.dir = dirs]
                     ELSE [Answer(fs, "rename",
                                  open \o del(newname \in fs.save.dir)
                                       \o <<"rename">>, <<"ok">>, <<>>)
                             EXCEPT !.save.dir = (dirs \ {name})
                                                    \cup {newname}]
                ELSE Answer(fs, "rename", open, <<"ENOENT">>, <<>>)
    /\ UNCHANGED <<world, dualVars, layoutVars, diffVars>>

\* fn lookup
Lookup ==
    /\ world = "fuse" /\ fs.mounted /\ fs.served < MaxRequests
    /\ \E parent \in InoKinds, name \in Names, o1 \in {"Ok", "IoError"},
          o2 \in {"Ok", "IoError"} :
         LET calls == <<"Dir::open_ino", "Dir::open_sub_dir">>
         IN  OneFault(<<o1, o2>>) /\ fs' =
             IF parent = "File"
             THEN Answer(fs, "lookup", <<>>, <<"ENOTDIR">>, <<>>)
             ELSE IF o1 # "Ok"
             THEN Answer(fs, "lookup", <<"Dir::open_ino">>, <<"EIO">>, <<>>)
             ELSE IF name \in fs.save.dir
             THEN Answer(fs, "lookup", Append(calls, "Dir::list_sub_dir"),
                         <<IF o2 = "Ok" THEN "entry" ELSE "EIO">>, <<>>)
             ELSE IF FileNamed(fs.save, name) # {}
             THEN Answer(fs, "lookup", Append(calls, "Dir::open_sub_file"),
                         <<"entry">>, <<>>)
             ELSE Answer(fs, "lookup", Append(calls, "Dir::open_sub_file"),
                         <<"ENOENT">>, <<>>)
    /\ UNCHANGED <<world, dualVars, layoutVars, diffVars>>

\* fn getattr; whether a directory of the inode exists is drawn with the
\* request
Getattr ==
    /\ world = "fuse" /\ fs.mounted /\ fs.served < MaxRequests
    /\ \E kind \in InoKinds, ino \in 1..MaxNames + 1,
          o1 \in {"Ok", "NotFound"}, o2 \in {"Ok", "IoError"} :
         OneFault(<<o1, o2>>) /\ fs' =
             IF kind = "File"
             THEN Answer(fs, "getattr", <<"File::open_ino">>,
                         <<IF ino \in DOMAIN fs.save.file /\ o1 = "Ok"
                           THEN "attr" ELSE "ENOENT">>, <<>>)
             ELSE IF o1 # "Ok"
             THEN Answer(fs, "getattr", <<"Dir::open_ino">>, <<"ENOENT">>, <<>>)
             ELSE Answer(fs, "getattr", <<"Dir::open_ino", "Dir::list_sub_dir">>,
                         <<IF o2 = "Ok" THEN "attr" ELSE "EIO">>, <<>>)
    /\ UNCHANGED <<world, dualVars, layoutVars, diffVars>>

\* fn readdir; reply.add fills the buffer that reply.ok() sends
Readdir ==
    /\ world = "fuse" /\ fs.mounted /\ fs.served < MaxRequests
    /\ \E kind \in InoKinds, o1 \in {"Ok", "NotFound"}, o2 \in {"Ok", "IoError"},
          o3 \in {"Ok", "IoError"} :
         LET calls == <<"Dir::open_ino", "Dir::list_sub_dir">>
         IN  OneFault(<<o1, o2, o3>>) /\ fs' =
             IF kind = "File"
             THEN Answer(fs, "readdir", <<>>, <<"ENOTDIR">>, <<>>)
             ELSE IF o1 # "Ok"
             THEN Answer(fs, "readdir", <<"Dir::open_ino">>, <<"ENOENT">>, <<>>)
             ELSE IF o2 # "Ok"
             THEN Answer(fs, "readdir", calls, <<"EIO">>, <<>>)
             ELSE Answer(fs, "readdir", Append(calls, "Dir::list_sub_file"),
                         <<IF o3 = "Ok" THEN "ok" ELSE "EIO">>, <<>>)
    /\ UNCHANGED <<world, dualVars, layoutVars, diffVars>>

\* a drop that commits whatever the mode of the mount
dropAlways ==
    /\ world = "fuse" /\ fs.mounted
    /\ fs' = [fs EXCEPT !.mounted = FALSE, !.req = "drop", !.reply = <<>>,
                        !.out = <<>>, !.arg = <<>>, !.win = <<>>,
                        !.calls = <<"SaveData::commit", "Ok">>,
                        !.commits = @ + 1]
    /\ UNCHANGED <<world, dualVars, layoutVars, diffVars>>

\* impl Drop for SaveDataFilesystem, fn drop: the unmount.  What commit
\* returns is the last entry of fs.calls; unwrap panics on an error.
drop ==
    /\ world = "fuse" /\ fs.mounted
    /\ \E o \in {"Ok", "IoError"} :
         fs' = [fs EXCEPT !.mounted = FALSE, !.req = "drop", !.reply = <<>>,
                          !.out = <<>>, !.arg = <<>>, !.win = <<>>,
                          !.calls = IF ~fs.read_only
                                    THEN <<"SaveData::commit", o>> ELSE <<>>,
                          !.commits = IF ~fs.read_only THEN @ + 1 ELSE @]
    /\ UNCHANGED <<world, dualVars, layoutVars, diffVars>>

NextFuse ==
    \/ Lookup \/ Getattr \/ Mkdir \/ Mknod \/ Rmdir \/ Unlink \/ FuseOpen
    \/ Release \/ FuseRead \/ FuseWrite \/ Readdir \/ Rename \/ drop

SpecFuse == InitFuse /\ [][NextFuse]_vars

----------------------------------------------------------------------------
(* The calc world: align_up of misc.rs and the inode mapping of main.rs    *)
(* applied to every argument of a narrowed range.  The numbers of TLC     *)
(* are narrower than usize and u64: usize is taken UsizeBits wide and the  *)
(* u32 of an Ino InoBits wide, with 2^InoBits for 0x1_0000_0000.           *)
(* info.v holds the arguments and the result of the last call.             *)

UsizeBits == 5

InoBits == 3

MaxAlign == 4

\* an align_up that adds align - value % align without reducing it
AlignUpNoWrap(value, align) ==
    LET r == value + (align - (value % align))
    IN  IF r < Pow2(UsizeBits) THEN {[panic |-> FALSE, r |-> r]}
        ELSE {[panic |-> TRUE, r |-> 0],
              [panic |-> FALSE, r |-> r % Pow2(UsizeBits)]}

\* align_up in usize: a sum past the last usize panics in a build with
\* overflow checks and wraps in a build without
AlignUpUsize(value, align) ==
    LET r == value + ((align - (value % align)) % align)
    IN  IF r < Pow2(UsizeBits) THEN {[panic |-> FALSE, r |-> r]}
        ELSE {[panic |-> TRUE, r |-> 0],
              [panic |-> FALSE, r |-> r % Pow2(UsizeBits)]}

\* 0x1_0000_0000, one more than the last u32
FileBase == Pow2(InoBits)

\* Ino::to_os
to_os(i) == IF i.kind = "Dir" THEN i.ino ELSE i.ino + FileBase

\* Ino::from_os; `as u32` keeps the low bits
from_os(ino) ==
    IF ino > FileBase THEN [kind |-> "File", ino |-> (ino - FileBase) % FileBase]
    ELSE [kind |-> "Dir", ino |-> ino % FileBase]

InitCalc ==
    /\ world = "calc"
    /\ fs = NoFs
    /\ param = NoParam /\ info = NoInfo
    /\ signer = NoSigner /\ leaf = NoLeaf /\ diff = NoDiff /\ pc = NoPc
    /\ selector = 0 /\ pair = <<<<>>, <<>>>> /\ modified = 0
    /\ plain = <<>> /\ hist = NoCall

\* let r = align_up(value, align)
CallAlignUp ==
    /\ world = "calc"
    /\ \E value \in 0..Pow2(UsizeBits) - 1, align \in 1..MaxAlign :
         \E o \in AlignUpUsize(value, align) :
           info' = [op |-> "align_up",
                    v |-> [value |-> value, align |-> align,
                           panic |-> o.panic, r |-> o.r],
                    end |-> 0]
    /\ UNCHANGED <<fs, world, dualVars, param, diffVars>>

\* let back = Ino::from_os(ino.to_os())
CallFromOs ==
    /\ world = "calc"
    /\ \E kind \in InoKinds, i \in 0..FileBase - 1 :
         LET ino == [kind |-> kind, ino |-> i]
         IN  info' = [op |-> "from_os",
                      v |-> [ino |-> ino, os |-> to_os(ino),
                             back |-> from_os(to_os(ino))],
                      end |-> 0]
    /\ UNCHANGED <<fs, world, dualVars, param, diffVars>>

NextCalc == CallAlignUp \/ CallFromOs

SpecCalc == InitCalc /\ [][NextCalc]_vars

----------------------------------------------------------------------------
(* Claims about DualFile *)

InBounds(len) == {rq \in Requests(len) : rq[1] + rq[2] <= len}

\* C1: under the events of the fuzz test (in-bounds writes and reads,
\* commit, commit then DualFile::new), every in-bounds read of the DualFile
\* succeeds and returns the bytes the same read of the plain reference file
\* returns; the read the harness last made compared equal.
C1_FuzzLaw ==
    /\ \A rq \in InBounds(DualLen(pair)) :
          LET r == DualRead(selector, pair, modified, rq[1], rq[2])
          IN  r.err = "Ok" /\ r.data = FileRead(plain, rq[1], rq[2])
    /\ (hist.op = "read" /\ hist.err = "Ok") => hist.out = hist.ref

\* a read of a whole file of three cells, in a session opened after a
\* commit moved the selector to 1, whose two copies differ
C1_Witness ==
    /\ hist.op = "read" /\ hist.err = "Ok"
    /\ modified = 1 /\ selector = 1
    /\ Len(hist.out) >= 3 /\ hist.out = plain
    /\ pair[1] = plain /\ pair[2] # plain

\* C2: whatever writes the live instance has made since its last commit
\* (or its construction), a DualFile built now over the same selector and
\* pair reads, at every in-bounds range, the bytes readable at that commit.
C2_CrashConsistency ==
    LET d == DualNew(1, pair)
    IN  /\ d.err = "Ok"
        /\ \A rq \in InBounds(DualLen(pair)) :
              DualRead(selector, pair, d.modified, rq[1], rq[2]).data
                  = FileRead(hist.snap, rq[1], rq[2])

\* a new instance built after two or more uncommitted writes, which left the
\* other copy different from the committed one
C2_Witness ==
    /\ hist.op = "new" /\ hist.ended >= 2
    /\ modified = 0
    /\ DualView(selector, pair, modified) = hist.snap
    /\ pair[(1 - selector) + 1] # hist.snap
    /\ DualLen(pair) >= 3

\* C6: a commit flips the selector byte and clears the flag exactly when
\* a write has succeeded since construction or the last commit; otherwise
\* it leaves selector, copies and flag as they are.  No commit touches the
\* copies.
C6_CommitFlips ==
    [][hist'.op \in {"commit", "commit_new"} =>
         /\ pair' = pair
         /\ IF hist.nwrites >= 1
            THEN selector' = 1 - selector /\ modified' = 0 /\ modified = 1
            ELSE selector' = selector /\ modified' = modified]_vars

\* a commit that ended a session of two or more writes begun at selector 0
C6_Witness ==
    /\ hist.op = "commit" /\ hist.ended >= 2
    /\ selector = 1 /\ modified = 0

----------------------------------------------------------------------------
(* Claims about Diff *)

\* what a second Diff::new over the leaf as it is would show of the data
Reconstructed ==
    LET r == DiffNew(leaf, signer, param)
    IN  IF r.err # "Ok" THEN [err |-> r.err, data |-> <<>>]
        ELSE DiffView([leaf |-> leaf, diff |-> r.diff])

\* C3: after Diff::format and Diff::new, under in-bounds writes and reads,
\* commits and reopens, Diff::new always succeeds and every in-bounds read
\* of diff.partition() returns the bytes the same read of the plain
\* reference file returns, the reference going back to its state at the
\* last commit on a reopen.
C3_DiffFuzzLaw ==
    world = "diff" =>
        /\ hist.op \in {"format", "open", "reopen"} => hist.err = "Ok"
        /\ hist.op = "read" => hist.err \in {"Ok", "OutOfBound"}
        /\ pc.phase = "open" =>
             \A rq \in InBounds(param.data_len) :
                IV_Read(Live, rq[1], rq[2]) =
                    [err |-> "Ok", data |-> FileRead(plain, rq[1], rq[2])]

\* a reopen that took back a write, after a commit that published data
C3_Witness ==
    /\ world = "diff" /\ hist.op = "reopen" /\ hist.err = "Ok"
    /\ hist.ended = 1
    /\ plain # Zeros(param.data_len)
    /\ signer.some

\* C4: between commits, a second Diff::new over the leaf succeeds and shows
\* the data as of the last commit; and a write to diff.partition() changes
\* neither active_table, nor the table hash, nor the tag.
C4_NoPartialPublication ==
    /\ [](world = "diff" /\ pc.phase = "open" =>
            Reconstructed = [err |-> "Ok", data |-> hist.snap])
    /\ [][world = "diff" /\ hist'.op = "write" =>
            /\ leaf'.header.active_table = leaf.header.active_table
            /\ leaf'.header.sha = leaf.header.sha
            /\ leaf'.tag = leaf.tag]_vars

\* a write went through after a commit of other data, and is not committed
C4_Witness ==
    /\ world = "diff" /\ pc.phase = "open"
    /\ hist.op = "write" /\ hist.err = "Ok"
    /\ hist.snap # Zeros(param.data_len)
    /\ plain # hist.snap

\* C5: when the program stops inside Diff::commit, Diff::new over the leaf
\* succeeds and shows either the data as of the commit before or the data
\* the commit was publishing.
C5_CrashAtomicity ==
    hist.op = "crash" /\ pc.result = "none" =>
        /\ hist.err = "Ok"
        /\ hist.out \in {hist.snap, hist.ref}

\* C7: a second commit right after a commit changes nothing: not the
\* selector, the copies, the header, the tag, the flags, nor what is read.
\* For DualFile::commit and for Diff::commit.
C7_CommitIdempotent ==
    /\ world = "dual" =>
         LET c1 == DualCommit(selector, modified)
             c2 == DualCommit(c1.selector, c1.modified)
         IN  /\ c2 = c1
             /\ DualView(c2.selector, pair, c2.modified)
                    = DualView(c1.selector, pair, c1.modified)
    /\ world = "diff" /\ pc.phase = "open" =>
         LET c1 == DiffCommit(Live)
             c2 == DiffCommit(c1.S)
         IN  /\ c1.err = "Ok"
             /\ c2 = c1
             /\ DiffView(c2.S) = DiffView(c1.S)

\* a Diff with a write to commit, whose commit changes the leaf
C7_Witness ==
    /\ world = "diff" /\ pc.phase = "open" /\ hist.nwrites = 1
    /\ DiffCommit(Live).S.leaf.header # leaf.header
    /\ DiffCommit(Live).S.leaf.body # leaf.body

\* C9: Diff::format on a leaf of zeros of length calculate_size(param),
\* then Diff::new with the same signer, both succeed; the table offsets,
\* table size, partition offset and partition size Diff::new uses are those
\* of calculate_info(param), and each window lies inside the leaf.
C9_FormatOpenAgreement ==
    world = "format" =>
        /\ hist.op = "format" => hist.err = "Ok"
        /\ hist.op = "open" =>
             LET i == CalculateInfo(param)
             IN  /\ hist.err = "Ok"
                 /\ diff.secondary_table_offset = i.secondary_table_offset
                 /\ diff.primary_table_offset = i.primary_table_offset
                 /\ diff.table_size = i.table_len
                 /\ diff.partition_offset = i.partition_offset
                 /\ diff.partition_size = i.partition_len
                 /\ diff.secondary_table_offset + diff.table_size
                        <= LeafLen(leaf)
                 /\ diff.primary_table_offset + diff.table_size
                        <= LeafLen(leaf)
                 /\ diff.partition_offset + diff.partition_size
                        <= LeafLen(leaf)

\* a signed container opened after format, with padding before the primary
\* table and before the partition
C9_Witness ==
    /\ world = "format" /\ hist.op = "open" /\ hist.err = "Ok"
    /\ signer.some
    /\ diff.primary_table_offset > diff.secondary_table_offset + diff.table_size
    /\ diff.partition_offset > diff.primary_table_offset + diff.table_size
    /\ diff.partition_offset + diff.partition_size = diff.parent_len

\* C10: Diff::commit calls the commit of the partition, of the descriptor
\* IvfcLevel, of the descriptor DualFile and of the header file, in this
\* order; after a call that failed no other is made and the leaf is not
\* written; and when active_table flips, the table hash in the header is
\* already that of the table copy the flip selects.
C10_CommitOrder ==
    [][world = "diff" =>
        /\ \A k \in 1..Len(pc'.calls) :
              k <= 4 /\ pc'.calls[k] =
                <<"partition", "table_lower", "table_upper", "header_file">>[k]
        /\ pc'.result = "Ok" /\ pc.phase = "commit" => Len(pc'.calls) = 4
        /\ pc.result = "IoError" => pc'.calls = pc.calls /\ leaf' = leaf
        /\ pc'.result = "IoError" => leaf' = leaf
        /\ pc.phase \in {"open", "commit"}
           /\ leaf'.header.active_table # leaf.header.active_table =>
              /\ leaf'.header.sha = leaf.header.sha
              /\ leaf.header.sha =
                   TableSha(TablePair([leaf |-> leaf, diff |-> diff])
                                [leaf'.header.active_table + 1])]_vars

\* a commit that failed at the flip of active_table: the table hash is
\* written, the selector is not flipped, the header is not signed
C10_Witness ==
    /\ world = "diff" /\ pc.phase = "failed"
    /\ pc.calls = <<"partition", "table_lower", "table_upper">>
    /\ hist.nwrites = 1 /\ signer.some
    /\ diff.table_upper.modified = 1


----------------------------------------------------------------------------
(* Claims about the layout *)

\* C8: for every param, calculate_info gives secondary_table_offset =
\* 0x200, table_len = descriptor_len, primary_table_offset = align_up(0x200
\* + table_len, 8), partition_offset = align_up(primary_table_offset +
\* table_len, partition_align), with descriptor_len, partition_len and
\* partition_align those of DifiPartition; calculate_size gives
\* partition_offset + partition_len.
C8_Layout ==
    LET descriptor_len == DifiCalculateSize(param)[1]
        partition_len  == DifiCalculateSize(param)[2]
        align          == Max(param.dpfs_level3_block_len,
                              param.ivfc_level4_block_len)
        pri            == AlignUp(512 + descriptor_len, 8)
        part           == AlignUp(pri + descriptor_len, align)
    IN  /\ info.op = "calculate_info" =>
            /\ info.v.secondary_table_offset = 512
            /\ info.v.table_len = descriptor_len
            /\ info.v.primary_table_offset = pri
            /\ info.v.partition_offset = part
            /\ info.v.partition_len = partition_len
            /\ info.v.end = part + partition_len
        /\ info.op = "calculate_size" => info.end = part + partition_len

\* calculate_size of a param whose two alignments both move an offset: the
\* tables are not a multiple of 8 long and the partition is aligned to 16
C8_Witness ==
    /\ info.op = "calculate_size"
    /\ GetAlign(param) = 16
    /\ DifiCalculateSize(param)[1] % 8 = 3
    /\ info.end = 544 + 2 * param.data_len

----------------------------------------------------------------------------
(* Claims about Diff::new over a leaf changed behind its back *)

\* C11: Diff::new fails with MagicMismatch, and builds no Diff, exactly
\* when the signature check, if there is a signer, has passed and the magic
\* is not "DIFF" or the version is not 0x30000; with both as expected it
\* never returns MagicMismatch.
C11_MagicCheck ==
    (world = "tamper" /\ hist.op \in {"open", "reopen"}) =>
        LET h == leaf.header
            passed == signer.some => leaf.tag = Mac(signer.key, h)
            wrong == h.magic # Magic \/ FromLE(h.version) # Version
        IN  /\ hist.err = "MagicMismatch" <=> (passed /\ wrong)
            /\ hist.err = "MagicMismatch" => (diff = NoDiff /\ pc.phase = "dead")

\* Diff::new refused a header signed with the key whose version is wrong
C11_Witness ==
    /\ world = "tamper" /\ hist.op = "reopen" /\ signer.some
    /\ pc.calls = <<"header", "resign">> /\ pc.result = "version"
    /\ hist.err = "MagicMismatch" /\ diff = NoDiff

\* C12: with a signer, after a commit, a change of any byte of the header
\* region, the first byte of the magic included, makes Diff::new fail with
\* SignatureMismatch, never with MagicMismatch.
C12_SignedHeader ==
    (world = "tamper" /\ hist.op = "reopen" /\ signer.some
     /\ pc.calls = <<"header">>) =>
        (hist.err = "SignatureMismatch" /\ diff = NoDiff)

\* the first byte of the magic was changed under a signer
C12_Witness ==
    /\ world = "tamper" /\ hist.op = "reopen" /\ signer.some
    /\ pc.calls = <<"header">> /\ pc.result = "magic" /\ pc.step = 1
    /\ leaf.header.magic # Magic
    /\ hist.err = "SignatureMismatch"

\* C13: after a commit, a change of a cell of the active copy of the
\* descriptor makes Diff::new fail with HashMismatch; a change of a cell of
\* the active copy of the data lets Diff::new through and makes every read
\* that covers the cell fail with HashMismatch; and no read gives bytes
\* other than those committed.
C13_TamperDetected ==
    world = "tamper" =>
        /\ (hist.op = "reopen" /\ pc.calls = <<"table_active">>) =>
               hist.err = "HashMismatch"
        /\ (hist.op = "reopen" /\ pc.calls = <<"data_active">>) =>
               hist.err = "Ok"
        /\ pc.phase = "reopened" =>
               \A rq \in InBounds(param.data_len) :
                   LET r == IV_Read(Live, rq[1], rq[2])
                       covered == rq[1] <= pc.step /\ pc.step < rq[1] + rq[2]
                   IN  /\ (pc.calls = <<"data_active">> /\ covered) =>
                              r.err = "HashMismatch"
                       /\ r.err \in {"Ok", "HashMismatch"}
                       /\ r.err = "Ok" => r.data = FileRead(plain, rq[1], rq[2])
        /\ hist.op = "read" => hist.err # "Differs"

\* a read over a changed cell of the data failed after Diff::new went through
C13_Witness ==
    /\ world = "tamper" /\ pc.phase = "reopened" /\ pc.calls = <<"data_active">>
    /\ hist.op = "read" /\ hist.err = "HashMismatch"
    /\ DP_Read(Live, 0, DataLen(Live)).data # plain

\* C18: Diff::format with unique id u, then Diff::new, gives a Diff whose
\* unique_id() is u; and no write and no commit changes what unique_id()
\* returns or the field of the header at 0x54.
C18_UniqueId ==
    /\ []((world \in {"format", "tamper"} /\ hist.op = "open") =>
             (hist.err = "Ok" /\ diff.unique_id = hist.ref[1]
              /\ hist.ref[1] \in UniqueIds))
    /\ [][(pc.phase \in {"open", "commit"} /\ pc'.phase \in {"open", "commit"})
            => (/\ diff'.unique_id = diff.unique_id
                /\ leaf'.header.unique_id = leaf.header.unique_id)]_vars

\* a session with a write was committed under an id that is not 0
C18_Witness ==
    /\ world = "tamper" /\ hist.op = "commit" /\ hist.ended = 1
    /\ diff.unique_id # 0
    /\ FromLE(leaf.header.unique_id) = diff.unique_id

----------------------------------------------------------------------------
(* Claims about the bounds and the construction of DualFile *)

\* C14: a read or a write of DualFile with pos + len beyond the length
\* returns OutOfBound and leaves the selector, the two copies and the flag
\* as they were; a request that ends at the length is accepted.
C14_OutOfBound ==
    /\ [](world = "dual" =>
            \A rq \in Requests(DualLen(pair)) :
              \A buf \in Bufs(Byte, rq[2]) :
                LET over == rq[1] + rq[2] > DualLen(pair)
                    w == DualWrite(selector, pair, modified, rq[1], buf)
                    r == DualRead(selector, pair, modified, rq[1], rq[2])
                IN  /\ over => /\ w.err = "OutOfBound" /\ r.err = "OutOfBound"
                               /\ w.pair = pair /\ w.modified = modified
                    /\ ~over => (w.err = "Ok" /\ r.err = "Ok"))
    /\ [][(world = "dual" /\ hist'.err = "OutOfBound") =>
             (/\ hist'.op \in {"read", "write"}
              /\ selector' = selector /\ pair' = pair
              /\ modified' = modified /\ plain' = plain)]_vars

\* a write beyond the end was refused in a session that holds a write
C14_Witness ==
    /\ world = "dual" /\ hist.op = "write" /\ hist.err = "OutOfBound"
    /\ modified = 1 /\ hist.nwrites >= 1

\* C15: DualFile::new returns SizeMismatch and builds nothing exactly when
\* the two copies differ in length or the selector is not one byte long;
\* otherwise it builds a DualFile with len() the length of pair[0] and
\* modified 0, and len() never changes afterwards.
C15_Construction ==
    /\ [][(world = "new" /\ pc.phase = "blank") =>
            LET mismatch == Len(pair[1]) # Len(pair[2]) \/ pc.step # 1
            IN  /\ mismatch => /\ hist'.err = "SizeMismatch"
                               /\ world' = "new" /\ pc'.phase = "dead"
                /\ ~mismatch => /\ hist'.err = "Ok" /\ world' = "dual"
                                /\ modified' = 0
                                /\ DualLen(pair') = Len(pair[1])]_vars
    /\ [][DualLen(pair') = DualLen(pair) /\ Len(pair'[2]) = Len(pair[2])]_vars

\* two copies of one length under a selector of another length than 1
C15_Witness ==
    /\ world = "new" /\ pc.phase = "dead" /\ hist.err = "SizeMismatch"
    /\ Len(pair[1]) = Len(pair[2]) /\ pc.step # 1

----------------------------------------------------------------------------
(* Claims about the first write of a session *)

\* C19: after the first write of a session succeeds, pair[1 - s] is
\* pair[s] with the bytes of the window replaced by buf, whatever
\* pair[1 - s] held before; a later write of the session changes the
\* window of pair[1 - s] and nothing else, with no copy of the edges.
C19_FirstWrite ==
    (world = "steps" /\ hist.op = "write" /\ hist.err = "Ok"
     /\ pc.step = Len(pc.calls)) =>
        LET s   == selector
            new == pc.calls[1]
            Over(base) ==
                [i \in 1..Len(base) |->
                    IF new.pos < i /\ i <= new.pos + Len(new.buf)
                    THEN new.buf[i - new.pos] ELSE base[i]]
            before == [pair EXCEPT ![2 - s] = hist.ref]
            m == IF pc.result = "first" THEN 0 ELSE 1
        IN  /\ modified = 1
            /\ pc.result = "first" => pair[2 - s] = Over(pair[s + 1])
            /\ pc.result = "later" =>
                   (pair[2 - s] = Over(hist.ref) /\ hist.out = <<"new">>)
            /\ pair = DualWrite(s, before, m, new.pos, new.buf).pair

\* a first write went over a copy that differed from the active one
\* outside the window written
C19_Witness ==
    /\ world = "steps" /\ hist.op = "write" /\ hist.err = "Ok"
    /\ pc.step = Len(pc.calls) /\ pc.result = "first"
    /\ hist.out = <<"new", "prefix", "suffix">>
    /\ hist.ref[1] # pair[selector + 1][1]
    /\ pair[2 - selector][1] = pair[selector + 1][1]

\* C20 as stated: on the first write of a session the prefix and the
\* suffix are copied into the target copy before the new bytes are written
C20_MirrorBeforeNew ==
    (world = "steps" /\ hist.op = "write" /\ pc.result = "first") =>
        \A i, j \in 1..Len(hist.out) :
            (hist.out[i] = "new" /\ hist.out[j] \in {"prefix", "suffix"})
                => j < i

\* C20: on the first write of a session the new bytes are written to the
\* target copy first; then the prefix [0, pos) and then the suffix
\* [end, L) are copied from the previously active copy into the target.
C20_NewBeforeMirror ==
    (world = "steps" /\ hist.op = "write" /\ pc.result = "first") =>
        /\ \A i, j \in 1..Len(hist.out) :
               /\ (hist.out[i] = "new" /\ hist.out[j] \in {"prefix", "suffix"})
                      => i < j
               /\ (hist.out[i] = "prefix" /\ hist.out[j] = "suffix") => i < j
        /\ (hist.err = "Ok" /\ pc.step = Len(pc.calls)) =>
               LET new == pc.calls[1]
                   Has(part) == \E i \in 1..Len(hist.out) : hist.out[i] = part
               IN  /\ Has("new")
                   /\ Has("prefix") <=> new.pos # 0
                   /\ Has("suffix") <=> new.pos + Len(new.buf) # DualLen(pair)
                   /\ \A k \in 1..Len(pc.calls) :
                          pc.calls[k].part # "new" =>
                              pc.calls[k].buf =
                                  FileRead(pair[selector + 1], pc.calls[k].pos,
                                           Len(pc.calls[k].buf))

\* the new bytes are in the target copy and the prefix is not yet
C20_Witness ==
    /\ world = "steps" /\ hist.op = "write" /\ pc.result = "first"
    /\ hist.out = <<"new">> /\ pc.step < Len(pc.calls)
    /\ pc.calls[2].part = "prefix"
    /\ modified = 0


----------------------------------------------------------------------------
(* Claims about the request handlers of SaveDataFilesystem *)

C17_ReadOnly ==
    /\ [](fs.read_only
            /\ fs.req \in {"mkdir", "mknod", "rmdir", "unlink", "write", "rename"}
          => fs.reply = <<"EROFS">> /\ fs.calls = <<>>)
    /\ [][fs.read_only => fs'.read_only /\ fs'.save = fs.save]_vars

\* a read-only mount that has answered a rename, after another request
C17_Witness ==
    /\ fs.read_only /\ fs.req = "rename" /\ fs.reply = <<"EROFS">>
    /\ fs.served >= 2


----------------------------------------------------------------------------
(* Claims about the frame and the state of a DualFile *)

\* C21: no write, successful or failed, changes the selector byte or the
\* copy the selector designates; a failed write changes nothing at all;
\* a read changes neither the selector, nor a copy, nor the flag.
C21_WriteFrame ==
    [][/\ hist'.op = "write" =>
            /\ selector' = selector
            /\ pair'[selector + 1] = pair[selector + 1]
            /\ hist'.err # "Ok" => pair' = pair /\ modified' = modified
       /\ hist'.op = "read" =>
            selector' = selector /\ pair' = pair /\ modified' = modified]_vars

\* a successful write has left the target copy different from the active
\* copy
C21_Witness ==
    /\ world = "dual" /\ hist.op = "write" /\ hist.err = "Ok"
    /\ modified = 1 /\ pair[2 - selector] # pair[selector + 1]

\* C22: in every reachable state the selector byte and the flag are 0 or 1,
\* the index selector XOR modified and the difference 1 - selector are
\* indices of pair, and every in-bounds read returns the window of
\* pair[selector XOR modified].
C22_StateInvariant ==
    /\ selector \in {0, 1} /\ modified \in {0, 1}
    /\ LET idx == IF selector = modified THEN 0 ELSE 1
       IN  /\ idx + 1 \in DOMAIN pair
           /\ (1 - selector) + 1 \in DOMAIN pair
           /\ \A rq \in Requests(DualLen(pair)) :
                LET r == DualRead(selector, pair, modified, rq[1], rq[2])
                IN  r.err = "Ok" =>
                      r.data = SubSeq(pair[idx + 1], rq[1] + 1, rq[1] + rq[2])
           /\ hist.op = "read" /\ hist.err = "Ok" =>
                \E pos \in 0..DualLen(pair) :
                   hist.out = SubSeq(pair[idx + 1], pos + 1, pos + Len(hist.out))

\* a read in an open session over selector 1: served from pair[0], which
\* differs from pair[1]
C22_Witness ==
    /\ world = "dual" /\ hist.op = "read" /\ hist.err = "Ok"
    /\ selector = 1 /\ modified = 1 /\ pair[1] # pair[2]
    /\ hist.out = pair[1]

----------------------------------------------------------------------------
(* Claims about the table copies of a Diff *)

\* C23: after Diff::format the header holds active_table = 1 and the table
\* copy at secondary_table_offset holds the formatted descriptor, whose
\* hash the header holds; the first Diff::new succeeds, takes the copy at
\* secondary_table_offset for pair[1] and the copy at primary_table_offset
\* for pair[0], and reads the formatted descriptor; and the step that
\* moves active_table away from 1 sets it to 0, with the descriptor the
\* header vouches for in the primary copy and the secondary copy as it
\* was.
C23_FormatSelectsCopy ==
    /\ [](world = "diff" /\ hist.op = "format" =>
            LET h == leaf.header
                copy == FileRead(leaf.body,
                                 FromLE(h.secondary_table_offset) - 512,
                                 FromLE(h.table_size))
            IN  /\ hist.err = "Ok"
                /\ h.active_table = 1
                /\ FromLE(h.secondary_table_offset) = 512
                /\ copy = DifiFormat(param)
                /\ TableSha(copy) = h.sha)
    /\ [](world = "diff" /\ hist.op = "open" =>
            LET sec == FileRead(leaf.body, diff.secondary_table_offset - 512,
                                diff.table_size)
                pri == FileRead(leaf.body, diff.primary_table_offset - 512,
                                diff.table_size)
            IN  /\ hist.err = "Ok"
                /\ TablePair(Live) = <<pri, sec>>
                /\ TU_Read(Live, 0, diff.table_size).data = sec
                /\ sec = DifiFormat(param))
    /\ [][world = "diff" /\ leaf.header.active_table = 1
            /\ leaf'.header.active_table # 1 =>
            LET sec  == FileRead(leaf.body, diff.secondary_table_offset - 512,
                                 diff.table_size)
                sec2 == FileRead(leaf'.body, diff.secondary_table_offset - 512,
                                 diff.table_size)
                pri2 == FileRead(leaf'.body, diff.primary_table_offset - 512,
                                 diff.table_size)
            IN  /\ leaf'.header.active_table = 0
                /\ sec2 = sec
                /\ TableSha(pri2) = leaf'.header.sha]_vars

\* the first commit is through: active_table is 0, the secondary copy
\* still holds the formatted descriptor and the primary copy another one
C23_Witness ==
    /\ world = "diff" /\ hist.op = "commit" /\ leaf.header.active_table = 0
    /\ FileRead(leaf.body, diff.secondary_table_offset - 512, diff.table_size)
         = DifiFormat(param)
    /\ FileRead(leaf.body, diff.primary_table_offset - 512, diff.table_size)
         # DifiFormat(param)

----------------------------------------------------------------------------
(* Claims about the order of the regions of a container *)

\* C24: for every param, calculate_info puts the secondary table at 0x200,
\* the primary table at or after its end, on a multiple of 8, the
\* partition at or after the end of the primary table, on a multiple of
\* partition_align, and end at the end of the partition: the header
\* [0, 0x200), the two table copies and the partition share no byte.
C24_RegionsOrdered ==
    info.op = "calculate_info" =>
        LET v == info.v
            align == IF param.dpfs_level3_block_len > param.ivfc_level4_block_len
                     THEN param.dpfs_level3_block_len
                     ELSE param.ivfc_level4_block_len
            regions == <<<<0, 512>>,
                         <<v.secondary_table_offset,
                           v.secondary_table_offset + v.table_len>>,
                         <<v.primary_table_offset,
                           v.primary_table_offset + v.table_len>>,
                         <<v.partition_offset, v.end>>>>
        IN  /\ align >= 1
            /\ v.secondary_table_offset = 512
            /\ v.secondary_table_offset + v.table_len <= v.primary_table_offset
            /\ v.primary_table_offset + v.table_len <= v.partition_offset
            /\ v.end = v.partition_offset + v.partition_len
            /\ v.primary_table_offset % 8 = 0
            /\ v.partition_offset % align = 0
            /\ \A i, j \in 1..4 :
                 i < j => \A b \in regions[i][1]..regions[i][2] - 1 :
                            ~(regions[j][1] <= b /\ b < regions[j][2])

\* calculate_info of a param with tables that end off a multiple of 8, a
\* partition aligned to 16 and data in the partition
C24_Witness ==
    /\ info.op = "calculate_info"
    /\ info.v.table_len % 8 # 0
    /\ info.v.partition_offset % 16 = 0
    /\ info.v.partition_offset > info.v.primary_table_offset + info.v.table_len
    /\ info.v.partition_len > 0
    /\ param.ivfc_level4_block_len = 16

----------------------------------------------------------------------------
(* Claims about align_up and the inode mapping *)

\* C30 as stated: for every value and every align >= 1, align_up returns a
\* multiple r of align with value <= r < value + align, and value itself
\* when value is a multiple of align.
C30_AlignUpEvery ==
    info.op = "align_up" =>
        /\ ~info.v.panic
        /\ info.v.r % info.v.align = 0
        /\ info.v.value <= info.v.r /\ info.v.r < info.v.value + info.v.align
        /\ info.v.value % info.v.align = 0 => info.v.r = info.v.value

\* C30: for every value and every align >= 1 such that a multiple of align
\* that is >= value is a usize, align_up returns the least such multiple:
\* r is a multiple of align, value <= r < value + align, no number of
\* value .. r - 1 is a multiple of align, and r = value when value is a
\* multiple of align.
C30_AlignUpLeast ==
    (/\ info.op = "align_up"
     /\ \E m \in info.v.value..Pow2(UsizeBits) - 1 : m % info.v.align = 0) =>
        /\ ~info.v.panic
        /\ info.v.r % info.v.align = 0
        /\ info.v.value <= info.v.r /\ info.v.r < info.v.value + info.v.align
        /\ \A m \in info.v.value..info.v.r - 1 : m % info.v.align # 0
        /\ info.v.value % info.v.align = 0 => info.v.r = info.v.value

\* a value that is not a multiple of align, moved up by more than one
C30_Witness ==
    /\ info.op = "align_up" /\ ~info.v.panic
    /\ info.v.value % info.v.align # 0
    /\ info.v.r > info.v.value + 1

\* C29: for every index i, from_os(to_os(Dir(i))) is Dir(i) and
\* from_os(to_os(File(i))) is File(i); and no directory and file have the
\* same OS inode number.
C29_InoRoundTrip ==
    /\ info.op = "from_os" => info.v.back = info.v.ino
    /\ \A i, j \in 0..FileBase - 1 :
         to_os([kind |-> "Dir", ino |-> i]) # to_os([kind |-> "File", ino |-> j])

----------------------------------------------------------------------------
(* Claims about the replies, the commit and the handles of the mount *)

\* C25: whatever the request, its input and what the calls on the save
\* data return, the handler has sent exactly one reply when it returns.
C25_OneReply ==
    fs.req \in {"lookup", "getattr", "mkdir", "mknod", "rmdir", "unlink",
                "open", "release", "read", "write", "readdir", "rename"}
        => Len(fs.reply) = 1

\* C26: SaveData::commit is not called while the filesystem is mounted; it
\* is called once, by drop, when the mount is not read-only and never when
\* it is; drop leaves the save data as the requests left it.
C26_CommitAtDrop ==
    /\ [](fs.mounted => fs.commits = 0)
    /\ [](world = "fuse" /\ ~fs.mounted =>
            fs.commits = IF fs.read_only THEN 0 ELSE 1)
    /\ [](fs.req # "drop" =>
            \A i \in DOMAIN fs.calls : fs.calls[i] # "SaveData::commit")
    /\ [][fs'.commits # fs.commits =>
            /\ fs'.req = "drop" /\ ~fs.read_only /\ fs.mounted
            /\ fs'.commits = fs.commits + 1
            /\ fs'.calls[1] = "SaveData::commit"
            /\ fs'.save = fs.save]_vars

\* a read-write mount dropped after a request that changed the save data
C26_Witness ==
    /\ world = "fuse" /\ ~fs.mounted /\ ~fs.read_only /\ fs.commits = 1
    /\ fs.served >= 1 /\ fs.save.dir # {1}

\* C27: a successful open returns next_fh and moves next_fh up by one, so
\* that a handle is never given twice and every key of fh_map is below
\* next_fh; release removes its handle and no other; and on a read-write
\* mount a read or write replies EBADF exactly when its handle is not in
\* fh_map, with no call on the save data and no change of it.
C27_HandleTable ==
    /\ [](\A h \in DOMAIN fs.fh_map : 1 <= h /\ h < fs.next_fh)
    /\ [][fs'.next_fh >= fs.next_fh]_vars
    /\ [][fs'.req = "open" /\ fs'.served # fs.served =>
            IF fs'.reply = <<"opened">>
            THEN /\ fs'.out = <<fs.next_fh>>
                 /\ fs'.next_fh = fs.next_fh + 1
                 /\ fs.next_fh \notin DOMAIN fs.fh_map
                 /\ DOMAIN fs'.fh_map = DOMAIN fs.fh_map \cup {fs.next_fh}
                 /\ \A h \in DOMAIN fs.fh_map : fs'.fh_map[h] = fs.fh_map[h]
            ELSE fs'.next_fh = fs.next_fh /\ fs'.fh_map = fs.fh_map]_vars
    /\ [][fs'.req = "release" /\ fs'.served # fs.served =>
            /\ DOMAIN fs'.fh_map = DOMAIN fs.fh_map \ {fs'.arg[1]}
            /\ \A h \in DOMAIN fs'.fh_map : fs'.fh_map[h] = fs.fh_map[h]
            /\ fs'.next_fh = fs.next_fh]_vars
    /\ [](fs.req \in {"read", "write"} /\ ~fs.read_only =>
            (fs.arg[1] \notin DOMAIN fs.fh_map <=> fs.reply = <<"EBADF">>))
    /\ [][fs'.req \in {"read", "write"} /\ fs'.reply = <<"EBADF">> =>
            fs'.calls = <<>> /\ fs'.save = fs.save]_vars

\* a read with handle 1, which was given and then released
C27_Witness ==
    /\ fs.req = "read" /\ fs.reply = <<"EBADF">> /\ fs.arg[1] = 1
    /\ fs.next_fh = 2 /\ ~fs.read_only

\* C28: a read on an open handle of a file of length n calls File::read
\* exactly when size # 0 and offset < n, with the window
\* [offset, min(offset + size, n)), which is not empty and lies in the
\* file, so that File::read does not return OutOfBound; otherwise it
\* replies with empty data.
C28_ReadClamps ==
    (fs.req = "read" /\ fs.arg[1] \in DOMAIN fs.fh_map) =>
        LET n      == Len(fs.save.file[fs.fh_map[fs.arg[1]]].data)
            offset == fs.arg[2]
            size   == fs.arg[3]
            end    == IF offset + size < n THEN offset + size ELSE n
            called == \E i \in DOMAIN fs.calls : fs.calls[i] = "File::read"
        IN  /\ called <=> (size # 0 /\ offset < n)
            /\ called =>
                 /\ fs.win = <<offset, end - offset>>
                 /\ fs.win[2] > 0 /\ fs.win[1] + fs.win[2] <= n
                 /\ fs.calls[Len(fs.calls)] # "OutOfBound"
                 /\ fs.reply = <<"data">> => Len(fs.out) = fs.win[2]
            /\ ~called => fs.reply = <<"data">> /\ fs.out = <<>>

\* a read that asked for more than the file holds past offset
C28_Witness ==
    /\ fs.req = "read" /\ fs.arg[1] \in DOMAIN fs.fh_map
    /\ fs.reply = <<"data">> /\ fs.arg[2] = 1 /\ fs.arg[3] = 3
    /\ fs.win = <<1, 1>> /\ Len(fs.out) = 1
=========================================================================
